---- MODULE Spec2Model ----
(***************************************************************************)
(* Verification model of go-edgar (RxDataLab/go-edgar).                    *)
(*                                                                         *)
(* Several parts share this module, each with its own specification:       *)
(*   SpecSeq / SpecConc  the rate-limited HTTP acquirer (fetcher.go)       *)
(*   SpecBatch           the batch orchestrator (FetchAndParseBatch)       *)
(*   SpecForm4           the Form 4 10b5-1 projection (form4_output.go)    *)
(*   SpecNormalize       the text normalizer (NormalizeText)               *)
(*   SpecFilter          the filing filters called on their own            *)
(*   SpecIndex           the index columns turned into filings             *)
(*   SpecAcquire         the index requests next to FetchForm              *)
(*   SpecShares          Schedule 13 share aggregation                     *)
(* Times are in milliseconds.                                              *)
(***************************************************************************)
EXTENDS Integers, Sequences, FiniteSets, TLC

VARIABLES
    now,              \* the process clock (time.Now), ms
    lastRequestTime,  \* fetcher.go:23, package-level var; ZeroTime = time.Time{}
    pc,               \* position of every FetchForm caller
    wakeAt,           \* end of the time.Sleep a caller is in
    ret,              \* what the caller's last FetchForm returned
    requests,         \* log of issued HTTP requests: time, caller, kind, User-Agent
    calls,            \* number of FetchForm calls made so far
    arg,              \* the email argument of every caller's running call, "" when idle
    resp              \* how client.Do ended in every caller's latest call, "none" before

fetchVars == <<now, lastRequestTime, pc, wakeAt, ret, requests, calls, arg, resp>>

VARIABLES
    bpc,              \* position of FetchAndParseBatch
    opts,             \* the BatchOptions of the running call
    filings,          \* the filtered index the loop ranges over
    idx,              \* loop position in filings (1-based)
    result,           \* the BatchResult under construction, NilRec when none is returned
    batchErr,         \* the error FetchAndParseBatch returned, "" for nil
    fetchLog,         \* accession numbers FetchForm was called for, in order
    parseLog,         \* accession numbers ParseAny was called for, in order
    cancelRequested,  \* the caller has asked the running batch to stop
    subs,             \* the Submissions FetchSubmissions returned, NilRec when none
    indexFetch,       \* "none", "failed" or "ok": how FetchSubmissions ended
    netOutcome        \* how the latest FetchForm or ParseAny of the loop ended

batchVars == <<bpc, opts, filings, idx, result, batchErr, fetchLog, parseLog,
               cancelRequested, subs, indexFetch, netOutcome>>

VARIABLES
    form4,            \* the parsed Form4 document (form4.go Form4), NilRec before Parse
    out               \* what ToOutput made of it, NilRec before the conversion

form4Vars == <<form4, out>>

VARIABLES
    input,            \* the arguments of the library function being exercised, NilRec when none
    output            \* what the function returned for them, NilRec before the call

pureVars == <<input, output>>

VARIABLES
    apc,              \* position of the goroutine in FetchSubmissions or GetAllFilings, "idle" outside
    page,             \* position of GetAllFilings in s.Filings.Files (1-based)
    nfiles,           \* len(s.Filings.Files) of the running GetAllFilings
    ops               \* number of FetchSubmissions and GetAllFilings calls made so far

acqVars == <<apc, page, nfiles, ops>>

vars == <<fetchVars, batchVars, form4Vars, pureVars, acqVars>>

(***************************************************************************)
(* Bounds of the model.                                                    *)
(***************************************************************************)
TickMs == 50          \* granularity of the clock
MaxTime == 300        \* the clock stops advancing here
MaxFetches == 3       \* FetchForm calls per behaviour

(***************************************************************************)
(* Program constants.                                                      *)
(***************************************************************************)
RateLimit == 100      \* fetcher.go:17
ZeroTime == -1        \* the zero time.Time, for which IsZero() holds

Emails == {"", "analyst@corp.com", "user@example.com", "not-an-email"}

\* Outcomes of client.Do followed by the status check and io.ReadAll.
Outcomes == {"transport_error", "status_200", "status_204", "status_404", "status_503",
             "read_error"}

VERSION == "0.3.0"    \* fetcher.go:14

\* fetcher.go:44-46: fmt.Sprintf("go-edgar/%s (%s)", VERSION, email), kept as
\* the pieces the format string puts together.
BuildUserAgent(email) == <<"go-edgar/", VERSION, " (", email, ")">>

(***************************************************************************)
(* FetchForm, fetcher.go:51-95, one action per step of a caller.           *)
(***************************************************************************)

\* fetcher.go:51-54: the call and the empty-email guard.
Call(t, email) ==
    /\ pc[t] = "idle"
    /\ calls < MaxFetches
    /\ calls' = calls + 1
    /\ resp' = [resp EXCEPT ![t] = "none"]
    /\ IF email = ""
          THEN /\ ret' = [ret EXCEPT ![t] = "err_email"]
               /\ pc' = pc
               /\ arg' = arg
          ELSE /\ ret' = [ret EXCEPT ![t] = "pending"]
               /\ pc' = [pc EXCEPT ![t] = "ratelimit"]
               /\ arg' = [arg EXCEPT ![t] = email]
    /\ UNCHANGED <<now, lastRequestTime, wakeAt, requests>>
    /\ UNCHANGED <<batchVars, form4Vars, pureVars, acqVars>>

\* fetcher.go:56-62: read lastRequestTime, sleep for what is left of RateLimit.
\* The read is not synchronised with the write of line 81; a racing read
\* yields the value before or after that write, which the interleaving of
\* this action with Respond already covers.
RateLimitCheck(t) ==
    /\ pc[t] = "ratelimit"
    /\ IF lastRequestTime # ZeroTime /\ now - lastRequestTime < RateLimit
          THEN /\ wakeAt' = [wakeAt EXCEPT ![t] = now + (RateLimit - (now - lastRequestTime))]
               /\ pc' = [pc EXCEPT ![t] = "sleep"]
          ELSE /\ wakeAt' = wakeAt
               /\ pc' = [pc EXCEPT ![t] = "create"]
    /\ UNCHANGED <<now, lastRequestTime, ret, requests, calls, arg, resp>>
    /\ UNCHANGED <<batchVars, form4Vars, pureVars, acqVars>>

\* fetcher.go:60: time.Sleep returns no earlier than the requested duration.
Wake(t) ==
    /\ pc[t] = "sleep"
    /\ now >= wakeAt[t]
    /\ pc' = [pc EXCEPT ![t] = "create"]
    /\ UNCHANGED <<now, lastRequestTime, wakeAt, ret, requests, calls, arg, resp>>
    /\ UNCHANGED <<batchVars, form4Vars, pureVars, acqVars>>

\* fetcher.go:64-75: http.NewRequest (fails on a malformed URL, nothing is
\* sent), the User-Agent header, and client.Do putting the request on the wire.
Send(t, urlOK) ==
    /\ pc[t] = "create"
    /\ IF urlOK
          THEN /\ requests' = Append(requests,
                     [at |-> now, by |-> t, kind |-> "filing",
                      userAgent |-> BuildUserAgent(arg[t]), failed |-> FALSE])
               /\ pc' = [pc EXCEPT ![t] = "inflight"]
               /\ ret' = ret
               /\ arg' = arg
          ELSE /\ requests' = requests
               /\ pc' = [pc EXCEPT ![t] = "idle"]
               /\ ret' = [ret EXCEPT ![t] = "err_request"]
               /\ arg' = [arg EXCEPT ![t] = ""]
    /\ UNCHANGED <<now, lastRequestTime, wakeAt, calls, resp>>
    /\ UNCHANGED <<batchVars, form4Vars, pureVars, acqVars>>

\* The outcomes with which the request itself failed: client.Do returned an
\* error (transport error or timeout, fetcher.go:75-78) or the status is an
\* error status (fetcher.go:84-86).
FailedOutcomes == {"transport_error", "status_404", "status_503"}

\* The log entry of the request that caller t has in flight.
LastRequestOf(t) ==
    LET own == { i \in 1..Len(requests) : requests[i].by = t /\ requests[i].kind = "filing" }
    IN  CHOOSE i \in own : \A j \in own : j <= i

\* fetcher.go:75-94: client.Do returns. A transport error or timeout returns
\* at line 77, before line 81 stores time.Now() in lastRequestTime.
Respond(t, outcome) ==
    /\ pc[t] = "inflight"
    /\ pc' = [pc EXCEPT ![t] = "idle"]
    /\ arg' = [arg EXCEPT ![t] = ""]
    /\ resp' = [resp EXCEPT ![t] = outcome]
    /\ IF outcome = "transport_error"
          THEN /\ lastRequestTime' = lastRequestTime
               /\ ret' = [ret EXCEPT ![t] = "err_transport"]
          ELSE /\ lastRequestTime' = now
               /\ ret' = [ret EXCEPT ![t] =
                            CASE outcome = "status_200" -> "ok"
                              [] outcome = "read_error" -> "err_read"
                              [] OTHER -> "err_status"]
    /\ requests' = [requests EXCEPT ![LastRequestOf(t)].failed = outcome \in FailedOutcomes]
    /\ UNCHANGED <<now, wakeAt, calls>>
    /\ UNCHANGED <<batchVars, form4Vars, pureVars, acqVars>>

\* The clock advances.
Tick ==
    /\ now < MaxTime
    /\ now' = now + TickMs
    /\ UNCHANGED <<lastRequestTime, pc, wakeAt, ret, requests, calls, arg, resp>>
    /\ UNCHANGED <<batchVars, form4Vars, pureVars, acqVars>>

\* The steps of the callers of FetchForm, their email arguments from emails.
FetchNextFor(emails) ==
    \/ \E t \in DOMAIN pc, email \in emails : Call(t, email)
    \/ \E t \in DOMAIN pc : RateLimitCheck(t)
    \/ \E t \in DOMAIN pc : Wake(t)
    \/ \E t \in DOMAIN pc, urlOK \in BOOLEAN : Send(t, urlOK)
    \/ \E t \in DOMAIN pc, outcome \in Outcomes : Respond(t, outcome)
    \/ Tick

FetchNext == FetchNextFor(Emails)

FetchInit(callers) ==
    /\ now = 0
    /\ lastRequestTime = ZeroTime
    /\ pc = [t \in callers |-> "idle"]
    /\ wakeAt = [t \in callers |-> 0]
    /\ ret = [t \in callers |-> "none"]
    /\ requests = << >>
    /\ calls = 0
    /\ arg = [t \in callers |-> ""]
    /\ resp = [t \in callers |-> "none"]

(***************************************************************************)
(* Strings the code inspects character by character (form types, dates)    *)
(* are sequences of one-character strings; "" is << >>.                    *)
(***************************************************************************)

\* strings.HasPrefix
HasPrefix(s, p) == Len(p) <= Len(s) /\ SubSeq(s, 1, Len(p)) = p

\* strings.TrimSpace, for the space character
RECURSIVE TrimSpace(_)
TrimSpace(s) ==
    IF s = << >> THEN s
    ELSE IF Head(s) = " " THEN TrimSpace(Tail(s))
    ELSE IF s[Len(s)] = " " THEN TrimSpace(SubSeq(s, 1, Len(s) - 1))
    ELSE s

\* Byte values of the characters that occur in form types and dates.
CharCode(c) ==
    CASE c = " " -> 32 [] c = "-" -> 45 [] c = "/" -> 47
      [] c = "0" -> 48 [] c = "1" -> 49 [] c = "2" -> 50 [] c = "3" -> 51
      [] c = "4" -> 52 [] c = "5" -> 53 [] c = "6" -> 54 [] c = "7" -> 55
      [] c = "8" -> 56 [] c = "9" -> 57
      [] c = "A" -> 65 [] c = "C" -> 67 [] c = "D" -> 68 [] c = "G" -> 71
      [] c = "K" -> 75 [] c = "Q" -> 81 [] c = "S" -> 83

\* Go's <= on strings: bytewise lexicographic order.
RECURSIVE StrLE(_, _)
StrLE(a, b) ==
    IF a = << >> THEN TRUE
    ELSE IF b = << >> THEN FALSE
    ELSE IF Head(a) = Head(b) THEN StrLE(Tail(a), Tail(b))
    ELSE CharCode(Head(a)) < CharCode(Head(b))

(***************************************************************************)
(* Filing filters, submissions.go (unnamed/part_011).                      *)
(***************************************************************************)

\* part_011:273-297
normalizeFormType(formType) ==
    LET ft == TrimSpace(formType) IN
    IF HasPrefix(ft, <<"S", "C", " ">>) THEN ft
    ELSE IF ft = <<"1", "3", "D">> \/ ft = <<"1", "3", "G">> THEN <<"S", "C", " ">> \o ft
    ELSE IF HasPrefix(ft, <<"1", "3", "D", "/">>) THEN <<"S", "C", " ">> \o ft
    ELSE IF HasPrefix(ft, <<"1", "3", "G", "/">>) THEN <<"S", "C", " ">> \o ft
    ELSE ft

\* matchesFormType with the amendment rule applied to every request.
matchesFormType_AmendmentsForAll(filingForm, requestedForm) ==
    LET normalizedRequest == normalizeFormType(requestedForm) IN
    IF requestedForm = <<"1", "3">>
       THEN HasPrefix(filingForm, <<"S", "C", " ", "1", "3", "D">>)
            \/ HasPrefix(filingForm, <<"S", "C", " ", "1", "3", "G">>)
    ELSE IF filingForm = normalizedRequest THEN TRUE
    ELSE HasPrefix(filingForm, normalizedRequest \o <<"/">>)

\* part_011:239-265
matchesFormType(filingForm, requestedForm) ==
    LET normalizedRequest == normalizeFormType(requestedForm) IN
    IF requestedForm = <<"1", "3">>
       THEN HasPrefix(filingForm, <<"S", "C", " ", "1", "3", "D">>)
            \/ HasPrefix(filingForm, <<"S", "C", " ", "1", "3", "G">>)
    ELSE IF filingForm = normalizedRequest THEN TRUE
    ELSE IF HasPrefix(normalizedRequest, <<"S", "C", " ", "1", "3">>)
            /\ HasPrefix(filingForm, normalizedRequest \o <<"/">>) THEN TRUE
    ELSE FALSE

\* part_011:219-227
FilterByForm(fs, formType) ==
    LET Keep(f) == matchesFormType(f.form, formType) IN SelectSeq(fs, Keep)

\* FilterByDateRange leaving the loop at the first filing out of range.
FilterByDateRange_StopsAtFirstMiss(fs, from, to) ==
    LET Keep(f) == StrLE(from, f.filingDate) /\ StrLE(f.filingDate, to)
        misses == { i \in 1..Len(fs) : ~Keep(fs[i]) }
        stop == IF misses = {} THEN Len(fs) + 1
                ELSE CHOOSE i \in misses : \A j \in misses : i <= j
    IN  SubSeq(fs, 1, stop - 1)

\* part_011:301-310
FilterByDateRange(fs, from, to) ==
    LET Keep(f) == StrLE(from, f.filingDate) /\ StrLE(f.filingDate, to) IN
    SelectSeq(fs, Keep)

(***************************************************************************)
(* Inputs of the batch: what the SEC submissions index may hold.           *)
(***************************************************************************)
MaxFilings == 2       \* filings in the "recent" section of an index

Nil == "nil"

\* A nil pointer to a struct.
NilRec == [nil |-> TRUE]

D_2024_12_01 == <<"2", "0", "2", "4", "-", "1", "2", "-", "0", "1">>
D_2025_01_15 == <<"2", "0", "2", "5", "-", "0", "1", "-", "1", "5">>
D_2025_03_10 == <<"2", "0", "2", "5", "-", "0", "3", "-", "1", "0">>
D_2025_06_30 == <<"2", "0", "2", "5", "-", "0", "6", "-", "3", "0">>
D_1900_01_01 == <<"1", "9", "0", "0", "-", "0", "1", "-", "0", "1">>
D_2099_12_31 == <<"2", "0", "9", "9", "-", "1", "2", "-", "3", "1">>

Form_4 == <<"4">>
Form_4A == <<"4", "/", "A">>
Form_13D == <<"1", "3", "D">>
Form_SC13DA == <<"S", "C", " ", "1", "3", "D", "/", "A">>

\* Filing values as GetFilings builds them (part_011:64-82), URL included.
Catalogue ==
    { [accessionNumber |-> "0001-25-000001", form |-> Form_4,
       filingDate |-> D_2025_01_15, reportDate |-> D_2025_01_15,
       url |-> "https://www.sec.gov/Archives/edgar/data/1601830/000125000001/doc4.xml"],
      [accessionNumber |-> "0001-25-000002", form |-> Form_4A,
       filingDate |-> D_2025_03_10, reportDate |-> << >>,
       url |-> "https://www.sec.gov/Archives/edgar/data/1601830/000125000002/doc4a.xml"],
      [accessionNumber |-> "0001-25-000003", form |-> Form_SC13DA,
       filingDate |-> D_2025_03_10, reportDate |-> << >>,
       url |-> "https://www.sec.gov/Archives/edgar/data/1601830/000125000003/sc13da.htm"],
      [accessionNumber |-> "0001-25-000004", form |-> Form_4,
       filingDate |-> D_2025_06_30, reportDate |-> D_2025_06_30,
       url |-> "https://www.sec.gov/Archives/edgar/data/1601830/000125000004/doc4.xml"] }

D_2024_11_04 == <<"2", "0", "2", "4", "-", "1", "1", "-", "0", "4">>

\* The one paginated file an index may name, holding two older filings.
OlderPage ==
    << [accessionNumber |-> "0001-24-000009", form |-> Form_4,
        filingDate |-> D_2024_12_01, reportDate |-> D_2024_12_01,
        url |-> "https://www.sec.gov/Archives/edgar/data/1601830/000124000009/doc4.xml"],
       [accessionNumber |-> "0001-24-000008", form |-> Form_4,
        filingDate |-> D_2024_11_04, reportDate |-> << >>,
        url |-> "https://www.sec.gov/Archives/edgar/data/1601830/000124000008/doc4.xml"] >>

\* Sequences over S of length at most n, no element twice.
DistinctSeqs(S, n) ==
    UNION { { q \in [1..k -> S] : \A i, j \in 1..k : i # j => q[i] # q[j] } : k \in 0..n }

RecentSections == DistinctSeqs(Catalogue, MaxFilings)

BatchOptionsSet ==
    [ cik : {"", "1601830"},
      formType : {<< >>, Form_4, Form_13D},
      dateFrom : {<< >>, D_2025_03_10},
      dateTo : {<< >>, D_2025_03_10},
      email : Emails,
      includePaginated : BOOLEAN,
      listOnly : BOOLEAN ]

\* What ParseAny returns for the fetched bytes: an error or a FormType.
ParseOutcomes == {"parse_error", "4", "SC 13D", "XBRL"}

(***************************************************************************)
(* FetchAndParseBatch, batch.go (unnamed/part_003:510-627).                *)
(***************************************************************************)

EmptyResult ==
    [filings |-> << >>, totalFound |-> 0, fetched |-> 0, errors |-> << >>,
     filingList |-> << >>]

\* part_003:546-565: the form filter, then the date filter when a bound is set,
\* an unset bound taken as 1900-01-01 or 2099-12-31.
FilterForBatch(allFilings, o) ==
    LET byForm == FilterByForm(allFilings, o.formType) IN
    IF o.dateFrom # << >> \/ o.dateTo # << >>
       THEN FilterByDateRange(byForm,
                IF o.dateFrom = << >> THEN D_1900_01_01 ELSE o.dateFrom,
                IF o.dateTo = << >> THEN D_2099_12_31 ELSE o.dateTo)
       ELSE byForm

\* part_003:516-525: the three required options, in the order of the checks.
ValidateOptions(o) ==
    IF o.cik = "" THEN "CIK is required"
    ELSE IF o.formType = << >> THEN "FormType is required"
    ELSE IF o.email = "" THEN "Email is required"
    ELSE ""

\* ListOnlyResult losing the first record of the filtered index.
ListOnlyResult_DropsFirst(filtered) ==
    [EmptyResult EXCEPT !.totalFound = Len(filtered),
                        !.filingList = IF filtered = << >> THEN << >> ELSE Tail(filtered)]

\* The list_only return: the filtered index records as they are, nothing
\* fetched or parsed. cmd/goedgar/main.go:326,352 sets ListOnly and reads
\* FilingList; the branch of FetchAndParseBatch that serves them is not in
\* the sources at hand and follows the specification, section 4.13 step 5.
ListOnlyResult(filtered) ==
    [EmptyResult EXCEPT !.totalFound = Len(filtered), !.filingList = filtered]

\* part_003:534-544 with part_011:349-369 and 209-211: the recent section,
\* followed by the filings of every paginated file when IncludePaginated.
AllFilings(s, o) ==
    IF o.includePaginated
       THEN s.recent \o (IF s.files = << >> THEN << >> ELSE s.files[1])
       ELSE s.recent

Abort(msg) ==
    /\ bpc' = "aborted"
    /\ batchErr' = msg
    /\ result' = NilRec
    /\ filings' = << >>
    /\ idx' = 0

\* part_003:510-573: validation, FetchSubmissions, GetAllFilings or
\* GetRecentFilings, the filters, TotalFound, the ticker.
\* subsOK: FetchSubmissions succeeded; recent, files: what the index holds;
\* pagesOK: every FetchPaginatedFilings of GetAllFilings succeeded.
BatchStart(o, subsOK, recent, files, pagesOK) ==
    /\ bpc = "init"
    /\ opts' = o
    /\ UNCHANGED <<fetchLog, parseLog, cancelRequested, netOutcome>>
    /\ UNCHANGED <<fetchVars, form4Vars, pureVars, acqVars>>
    /\ indexFetch' = IF ValidateOptions(o) # "" THEN "none"
                     ELSE IF subsOK THEN "ok" ELSE "failed"
    /\ subs' = IF ValidateOptions(o) = "" /\ subsOK
                  THEN [recent |-> recent, files |-> files] ELSE NilRec
    /\ IF ValidateOptions(o) # "" THEN Abort(ValidateOptions(o))
       ELSE IF ~subsOK THEN Abort("failed to fetch submissions")
       ELSE IF o.includePaginated /\ files # << >> /\ ~pagesOK
               THEN Abort("failed to fetch paginated filings")
       ELSE LET filtered == FilterForBatch(AllFilings([recent |-> recent, files |-> files], o), o)
            IN /\ batchErr' = ""
               /\ filings' = filtered
               /\ IF o.listOnly
                     THEN /\ result' = ListOnlyResult(filtered)
                          /\ idx' = 0
                          /\ bpc' = "done"
                     ELSE /\ result' = [EmptyResult EXCEPT !.totalFound = Len(filtered)]
                          /\ idx' = 1
                          /\ bpc' = IF filtered = << >> THEN "done" ELSE "pace"

\* The caller asks the running batch to stop (specification, section 5).
\* FetchAndParseBatch takes no context, channel or flag: nothing in
\* part_003:510-627 reads this request.
RequestCancel ==
    /\ bpc \in {"pace", "fetch", "parse"}
    /\ ~cancelRequested
    /\ cancelRequested' = TRUE
    /\ UNCHANGED <<bpc, opts, filings, idx, result, batchErr, fetchLog, parseLog,
                   subs, indexFetch, netOutcome>>
    /\ UNCHANGED <<fetchVars, form4Vars, pureVars, acqVars>>

\* part_003:575-577: the receive from the 100 ms ticker.
BatchPace ==
    /\ bpc = "pace"
    /\ bpc' = "fetch"
    /\ UNCHANGED <<opts, filings, idx, result, batchErr, fetchLog, parseLog,
                   cancelRequested, subs, indexFetch, netOutcome>>
    /\ UNCHANGED <<fetchVars, form4Vars, pureVars, acqVars>>

\* The loop moves to the next filing, or returns (part_003:621-626).
NextFiling ==
    /\ idx' = idx + 1
    /\ bpc' = IF idx + 1 > Len(filings) THEN "done" ELSE "pace"

\* BatchFetch with a failed fetch ending the whole batch.
BatchFetch_AbortsOnFailure(fetchOK) ==
    /\ bpc = "fetch"
    /\ fetchLog' = Append(fetchLog, filings[idx].accessionNumber)
    /\ IF fetchOK
          THEN /\ bpc' = "parse"
               /\ UNCHANGED <<idx, result, batchErr>>
          ELSE /\ result' = NilRec
               /\ batchErr' = "failed to fetch"
               /\ bpc' = "aborted"
               /\ idx' = idx
    /\ netOutcome' = IF fetchOK THEN "fetched" ELSE "fetch_failed"
    /\ UNCHANGED <<opts, filings, parseLog, cancelRequested, subs, indexFetch>>
    /\ UNCHANGED <<fetchVars, form4Vars, pureVars, acqVars>>

\* part_003:584-590: FetchForm for the filing at hand.
BatchFetch(fetchOK) ==
    /\ bpc = "fetch"
    /\ fetchLog' = Append(fetchLog, filings[idx].accessionNumber)
    /\ IF fetchOK
          THEN /\ bpc' = "parse"
               /\ UNCHANGED <<idx, result>>
          ELSE /\ result' = [result EXCEPT !.errors =
                     Append(@, [kind |-> "fetch", accessionNumber |-> filings[idx].accessionNumber])]
               /\ NextFiling
    /\ netOutcome' = IF fetchOK THEN "fetched" ELSE "fetch_failed"
    /\ UNCHANGED <<opts, filings, batchErr, parseLog, cancelRequested, subs, indexFetch>>
    /\ UNCHANGED <<fetchVars, form4Vars, pureVars, acqVars>>

\* Form4Output.SetSource and SetFilingMetadata, form4_output.go:480-495:
\* an empty index field leaves the (empty) field of the fresh record alone.
Stamp(f) ==
    [source |-> f.url,
     accessionNumber |-> IF f.accessionNumber # "" THEN f.accessionNumber ELSE "",
     filingDate |-> IF f.filingDate # << >> THEN f.filingDate ELSE << >>,
     reportDate |-> IF f.reportDate # << >> THEN f.reportDate ELSE << >>]

\* BatchParse with a parsed Form 4 put in front of the success list.
BatchParse_Prepends(parsed) ==
    /\ bpc = "parse"
    /\ parseLog' = Append(parseLog, filings[idx].accessionNumber)
    /\ result' =
         IF parsed = "parse_error"
            THEN [result EXCEPT !.errors =
                     Append(@, [kind |-> "parse", accessionNumber |-> filings[idx].accessionNumber])]
         ELSE IF parsed # "4" THEN result
         ELSE [result EXCEPT !.filings = <<Stamp(filings[idx])>> \o @,
                             !.fetched = @ + 1]
    /\ NextFiling
    /\ netOutcome' = parsed
    /\ UNCHANGED <<opts, filings, batchErr, fetchLog, cancelRequested, subs, indexFetch>>
    /\ UNCHANGED <<fetchVars, form4Vars, pureVars, acqVars>>

\* part_003:592-619: ParseAny, the Form 4 test, the metadata, the append.
BatchParse(parsed) ==
    /\ bpc = "parse"
    /\ parseLog' = Append(parseLog, filings[idx].accessionNumber)
    /\ result' =
         IF parsed = "parse_error"
            THEN [result EXCEPT !.errors =
                     Append(@, [kind |-> "parse", accessionNumber |-> filings[idx].accessionNumber])]
         ELSE IF parsed # "4" THEN result
         ELSE [result EXCEPT !.filings = Append(@, Stamp(filings[idx])),
                             !.fetched = @ + 1]
    /\ NextFiling
    /\ netOutcome' = parsed
    /\ UNCHANGED <<opts, filings, batchErr, fetchLog, cancelRequested, subs, indexFetch>>
    /\ UNCHANGED <<fetchVars, form4Vars, pureVars, acqVars>>

BatchNext ==
    \/ /\ bpc = "init"
       /\ \E o \in BatchOptionsSet, subsOK \in BOOLEAN, recent \in RecentSections,
             files \in {<< >>, <<OlderPage>>}, pagesOK \in BOOLEAN :
             BatchStart(o, subsOK, recent, files, pagesOK)
    \/ RequestCancel
    \/ BatchPace
    \/ \E fetchOK \in BOOLEAN : BatchFetch(fetchOK)
    \/ \E parsed \in ParseOutcomes : BatchParse(parsed)

BatchIdle ==
    /\ bpc = "init"
    /\ opts = NilRec
    /\ filings = << >>
    /\ idx = 0
    /\ result = NilRec
    /\ batchErr = ""
    /\ fetchLog = << >>
    /\ parseLog = << >>
    /\ cancelRequested = FALSE
    /\ subs = NilRec
    /\ indexFetch = "none"
    /\ netOutcome = "none"

(***************************************************************************)
(* Form 4: the 10b5-1 classifier, form4_tenb51.go. A text is a sequence of *)
(* tokens (words and phrases); each regular expression is modelled by the  *)
(* token patterns it matches.                                              *)
(***************************************************************************)
MaxFootnotes == 2     \* footnotes of a Form 4 document

\* form4_tenb51.go:17, re10b51
Mentions10b51 == {"10b5-1", "Rule 10b5-1", "10b51"}
\* form4_tenb51.go:20, rePositive
PositiveCues == {"pursuant to", "adopted", "in accordance with", "under", "effected pursuant to"}
\* form4_tenb51.go:24-32, reAdoptionDate: the words that open the match,
\* the preposition, and the date shapes the last group accepts.
AdoptionWords == {"adopted", "established", "entered into"}
DatePrepositions == {"on", "in"}
DateTokens == {"March 13, 2025", "May 2024", "March 45, 2025"}

re10b51(text) == \E i \in 1..Len(text) : text[i] \in Mentions10b51

rePositive(text) == \E i \in 1..Len(text) : text[i] \in PositiveCues

\* The positions j where "on|in" is followed by a date, after position i.
DateAfter(text, i) ==
    { j \in (i + 1)..(Len(text) - 1) :
        text[j] \in DatePrepositions /\ text[j + 1] \in DateTokens }

Min(S) == CHOOSE x \in S : \A y \in S : x <= y
Max(S) == CHOOSE x \in S : \A y \in S : x >= y

\* form4_tenb51.go:24-32 and 78: FindStringSubmatch returns the leftmost
\* match, and ".*?" stops at the first date that follows; match[3] is the date.
reAdoptionDate(text) ==
    LET starts == { i \in 1..Len(text) :
                      text[i] \in AdoptionWords /\ DateAfter(text, i) # {} }
    IN IF starts = {} THEN Nil
       ELSE text[Min(DateAfter(text, Min(starts))) + 1]

\* form4_tenb51.go:37-57: the layouts time.Parse accepts, as ISO-8601;
\* a month without a day is the first of the month, an impossible day fails.
parseDate(raw) ==
    CASE raw = "March 13, 2025" -> "2025-03-13"
      [] raw = "May 2024" -> "2024-05-01"
      [] OTHER -> Nil

\* form4_tenb51.go:61-87
Extract10b51(text) ==
    IF ~re10b51(text) THEN [is10b51Plan |-> FALSE, adoptionDate |-> Nil]
    ELSE IF ~rePositive(text) THEN [is10b51Plan |-> FALSE, adoptionDate |-> Nil]
    ELSE LET match == reAdoptionDate(text) IN
         [is10b51Plan |-> TRUE,
          adoptionDate |-> IF match # Nil THEN parseDate(match) ELSE Nil]

RemarksKey == "__REMARKS__"

\* A Go map[string]string is a function on its keys; a missing key reads "".
MapGet(m, k) == IF k \in DOMAIN m THEN m[k] ELSE ""

MapPut(m, k, v) == [x \in DOMAIN m \cup {k} |-> IF x = k THEN v ELSE m[x]]

EmptyMap == [x \in {} |-> ""]

\* form4_tenb51.go:100-111: the loop over the footnotes, in document order.
RECURSIVE FootnoteMap(_, _)
FootnoteMap(fns, m) ==
    IF fns = << >> THEN m
    ELSE LET analysis == Extract10b51(Head(fns).text)
             m2 == IF analysis.is10b51Plan
                      THEN MapPut(m, Head(fns).id,
                                  IF analysis.adoptionDate # Nil THEN analysis.adoptionDate ELSE "")
                      ELSE m
         IN FootnoteMap(Tail(fns), m2)

\* form4_tenb51.go:97-126
Parse10b51Footnotes(f) ==
    LET m == FootnoteMap(f.footnotes, EmptyMap) IN
    IF f.remarks # << >>
       THEN LET analysis == Extract10b51(f.remarks) IN
            IF analysis.is10b51Plan
               THEN MapPut(m, RemarksKey,
                           IF analysis.adoptionDate # Nil THEN analysis.adoptionDate ELSE "")
               ELSE m
       ELSE m

(***************************************************************************)
(* Form 4: the projection, form4_output.go.                                *)
(***************************************************************************)

\* collectFootnotes without the seen map: every non-empty ID is appended.
RECURSIVE collectFootnotes_KeepsDuplicates(_, _)
collectFootnotes_KeepsDuplicates(ids, acc) ==
    IF ids = << >> THEN acc
    ELSE collectFootnotes_KeepsDuplicates(Tail(ids),
            IF Head(ids) # "" THEN Append(acc, Head(ids)) ELSE acc)

\* form4_output.go:736-748
RECURSIVE collectFootnotes(_, _)
collectFootnotes(ids, acc) ==
    IF ids = << >> THEN acc
    ELSE collectFootnotes(Tail(ids),
            IF Head(ids) # "" /\ ~(\E k \in 1..Len(acc) : acc[k] = Head(ids))
               THEN Append(acc, Head(ids)) ELSE acc)

\* check10b51Plan applying the remarks whenever the map has them, whatever
\* useRemarksGlobal says.
RECURSIVE check10b51Plan_RemarksAlways(_, _, _)
check10b51Plan_RemarksAlways(footnoteIDs, tenb51Map, useRemarksGlobal) ==
    IF footnoteIDs # << >>
       THEN IF Head(footnoteIDs) \in DOMAIN tenb51Map
               THEN IF tenb51Map[Head(footnoteIDs)] # ""
                       THEN <<TRUE, tenb51Map[Head(footnoteIDs)]>>
                       ELSE <<TRUE, Nil>>
               ELSE check10b51Plan_RemarksAlways(Tail(footnoteIDs), tenb51Map, useRemarksGlobal)
    ELSE IF RemarksKey \in DOMAIN tenb51Map
       THEN IF tenb51Map[RemarksKey] # ""
               THEN <<TRUE, tenb51Map[RemarksKey]>>
               ELSE <<TRUE, Nil>>
    ELSE <<FALSE, Nil>>

\* check10b51Plan passing over a footnote of the map that has no date.
RECURSIVE check10b51Plan_SkipsUndated(_, _, _)
check10b51Plan_SkipsUndated(footnoteIDs, tenb51Map, useRemarksGlobal) ==
    IF footnoteIDs # << >>
       THEN IF Head(footnoteIDs) \in DOMAIN tenb51Map /\ tenb51Map[Head(footnoteIDs)] # ""
               THEN <<TRUE, tenb51Map[Head(footnoteIDs)]>>
               ELSE check10b51Plan_SkipsUndated(Tail(footnoteIDs), tenb51Map, useRemarksGlobal)
    ELSE IF useRemarksGlobal /\ RemarksKey \in DOMAIN tenb51Map
       THEN IF tenb51Map[RemarksKey] # ""
               THEN <<TRUE, tenb51Map[RemarksKey]>>
               ELSE <<TRUE, Nil>>
    ELSE <<FALSE, Nil>>

\* form4_output.go:764-790. The result is <<is10b51Plan, adoptionDate>>.
RECURSIVE check10b51Plan(_, _, _)
check10b51Plan(footnoteIDs, tenb51Map, useRemarksGlobal) ==
    IF footnoteIDs # << >>
       THEN IF Head(footnoteIDs) \in DOMAIN tenb51Map
               THEN IF tenb51Map[Head(footnoteIDs)] # ""
                       THEN <<TRUE, tenb51Map[Head(footnoteIDs)]>>
                       ELSE <<TRUE, Nil>>
               ELSE check10b51Plan(Tail(footnoteIDs), tenb51Map, useRemarksGlobal)
    ELSE IF useRemarksGlobal /\ RemarksKey \in DOMAIN tenb51Map
       THEN IF tenb51Map[RemarksKey] # ""
               THEN <<TRUE, tenb51Map[RemarksKey]>>
               ELSE <<TRUE, Nil>>
    ELSE <<FALSE, Nil>>

\* form4_output.go:513-520
UseRemarksGlobal(f, tenb51Map) ==
    LET has10b51Footnotes == \E k \in DOMAIN tenb51Map : k # RemarksKey IN
    f.aff10b5One /\ ~has10b51Footnotes /\ MapGet(tenb51Map, RemarksKey) # ""

\* form4_output.go:596-623 and 625-661: a row is the sequence of the footnote
\* IDs of its fields, in the order the code passes them to collectFootnotes
\* (4 fields for a non-derivative row, 9 for a derivative row).
convertTransaction(txn, tenb51Map, useRemarksGlobal) ==
    LET footnotes == collectFootnotes(txn, << >>)
        plan == check10b51Plan(footnotes, tenb51Map, useRemarksGlobal)
    IN [fields |-> txn, footnotes |-> footnotes,
        is10b51Plan |-> plan[1], plan10b51AdoptionDate |-> plan[2]]

\* form4.go (unnamed/part_006:249-264): the flag, or a footnote in which
\* "10b5-1" is directly followed by "trading plan".
Is10b51Plan(f) ==
    \/ f.aff10b5One
    \/ \E n \in 1..Len(f.footnotes) :
          LET text == f.footnotes[n].text IN
          \E i \in 1..(Len(text) - 1) :
              text[i] \in {"10b5-1", "Rule 10b5-1"} /\ text[i + 1] = "trading plan"

\* form4_output.go:498-561
ToOutputOf(f) ==
    LET tenb51Map == Parse10b51Footnotes(f)
        useRemarksGlobal == UseRemarksGlobal(f, tenb51Map)
    IN [tenb51Map |-> tenb51Map,
        useRemarksGlobal |-> useRemarksGlobal,
        has10b51Plan |-> Is10b51Plan(f),
        transactions |-> [k \in 1..Len(f.nonDerivative) |->
                            convertTransaction(f.nonDerivative[k], tenb51Map, useRemarksGlobal)],
        derivatives |-> [k \in 1..Len(f.derivative) |->
                            convertTransaction(f.derivative[k], tenb51Map, useRemarksGlobal)]]

\* Sample texts: no 10b5-1 language; a plan with its adoption date; a plan
\* without a date; a plan that was terminated (no positive cue); a plan
\* adopted in a month.
T_plain == <<"shares", "sold", "on", "March 13, 2025">>
T_dated == <<"pursuant to", "10b5-1", "trading plan", "adopted", "by", "on", "March 13, 2025">>
T_undated == <<"effected pursuant to", "Rule 10b5-1", "plan">>
T_terminated == <<"10b5-1", "trading plan", "terminated">>
T_month == <<"under", "10b5-1", "established", "in", "May 2024", "on", "March 13, 2025">>

FootnoteTexts == {T_plain, T_dated, T_undated, T_terminated}
RemarksTexts == {<< >>, T_dated, T_undated, T_terminated, T_month}
FootnoteIds == {"F1", "F2"}
RowIds == {"", "F1", "F2"}

FootnoteLists ==
    UNION { [1..n -> [id : FootnoteIds, text : FootnoteTexts]] : n \in 0..MaxFootnotes }

\* The nine footnote fields of a derivative row, at most two of them set.
DerivRows ==
    { r \in [1..9 -> RowIds] : Cardinality({k \in 1..9 : r[k] # ""}) <= 2
                               /\ \A k \in 3..7 : r[k] = "" }

NonDerivRows == [1..4 -> RowIds]

\* xml.Unmarshal has filled the Form4 (part_006:180-186): flag, footnotes and
\* remarks; the tables hold one row, or none, or two sample rows.
Parse(aff, fns, remarks, nd, dv) ==
    /\ form4 = NilRec
    /\ form4' = [aff10b5One |-> aff, footnotes |-> fns, remarks |-> remarks,
                 nonDerivative |-> nd, derivative |-> dv]
    /\ out' = out
    /\ UNCHANGED <<fetchVars, batchVars, pureVars, acqVars>>

\* form4_output.go:498-561
ToOutput ==
    /\ form4 # NilRec
    /\ out = NilRec
    /\ out' = ToOutputOf(form4)
    /\ form4' = form4
    /\ UNCHANGED <<fetchVars, batchVars, pureVars, acqVars>>

Tables ==
    { [nd |-> <<r>>, dv |-> << >>] : r \in NonDerivRows }
    \cup { [nd |-> << >>, dv |-> <<r>>] : r \in DerivRows }
    \cup { [nd |-> << >>, dv |-> << >>],
           [nd |-> <<[k \in 1..4 |-> "F2"], [k \in 1..4 |-> "F1"]>>,
            dv |-> <<[k \in 1..9 |-> IF k = 9 THEN "F1" ELSE ""]>>] }

Form4Next ==
    \/ /\ form4 = NilRec
       /\ \E aff \in BOOLEAN, fns \in FootnoteLists, remarks \in RemarksTexts, t \in Tables :
             Parse(aff, fns, remarks, t.nd, t.dv)
    \/ ToOutput

Form4Idle ==
    /\ form4 = NilRec
    /\ out = NilRec

\* No library function is being exercised.
PureIdle ==
    /\ input = NilRec
    /\ output = NilRec

\* Neither FetchSubmissions nor GetAllFilings is running.
AcquireIdle ==
    /\ apc = "idle"
    /\ page = 0
    /\ nfiles = 0
    /\ ops = 0

(***************************************************************************)
(* Specifications.                                                         *)
(***************************************************************************)

\* One caller: sequential fetches.
SeqInit == FetchInit({1}) /\ BatchIdle /\ Form4Idle /\ PureIdle /\ AcquireIdle
SpecSeq == SeqInit /\ [][FetchNext]_vars

\* Two callers: FetchForm called concurrently from two goroutines, each call
\* with no email or with the one well-formed address.
ConcEmails == {"", "analyst@corp.com"}
ConcInit == FetchInit({1, 2}) /\ BatchIdle /\ Form4Idle /\ PureIdle /\ AcquireIdle
SpecConc == ConcInit /\ [][FetchNextFor(ConcEmails)]_vars

\* One call of FetchAndParseBatch.
BatchInit == FetchInit({1}) /\ BatchIdle /\ Form4Idle /\ PureIdle /\ AcquireIdle
SpecBatch == BatchInit /\ [][BatchNext]_vars

\* One Form 4 document parsed and projected.
Form4Init == FetchInit({1}) /\ BatchIdle /\ Form4Idle /\ PureIdle /\ AcquireIdle
SpecForm4 == Form4Init /\ [][Form4Next]_vars

(***************************************************************************)
(* C1: any two HTTP requests issued through FetchForm by one process are   *)
(* at least 100 ms apart, so n sequential fetches span >= 100 ms * (n-1).  *)
(***************************************************************************)
C1_MinInterval ==
    \A i, j \in 1..Len(requests) :
        i < j => requests[j].at - requests[i].at >= RateLimit * (j - i)

(***************************************************************************)
(* C2: with concurrent callers the pacing check and the update of the      *)
(* last-request timestamp are serialized: no two callers are between their *)
(* check and their update at once, and under every interleaving no two     *)
(* requests are issued less than 100 ms apart.                             *)
(***************************************************************************)
InPacing(t) == pc[t] \in {"sleep", "create", "inflight"}

C2_SerializedPacing ==
    /\ \A t1, t2 \in DOMAIN pc : (t1 # t2 /\ InPacing(t1)) => ~InPacing(t2)
    /\ \A i, j \in 1..Len(requests) :
          i # j => \/ requests[i].at - requests[j].at >= RateLimit
                   \/ requests[j].at - requests[i].at >= RateLimit

(***************************************************************************)
(* C3: in a batch, a failed fetch or a failed parse of one filing appends  *)
(* exactly one error with that filing's accession number, keeps what was   *)
(* collected, does not abort, and the loop goes on to the next filing.     *)
(***************************************************************************)
LoopStep == fetchLog' # fetchLog \/ parseLog' # parseLog

C3_FailureCapturedAndContinued ==
    [][ (LoopStep /\ netOutcome' \in {"fetch_failed", "parse_error"}) =>
          /\ result' # NilRec
          /\ Len(result'.errors) = Len(result.errors) + 1
          /\ SubSeq(result'.errors, 1, Len(result.errors)) = result.errors
          /\ result'.errors[Len(result'.errors)].accessionNumber = filings[idx].accessionNumber
          /\ result'.filings = result.filings
          /\ result'.fetched = result.fetched
          /\ result'.totalFound = result.totalFound
          /\ batchErr' = ""
          /\ filings' = filings
          /\ idx' = idx + 1
          /\ bpc' = IF idx < Len(filings) THEN "pace" ELSE "done" ]_vars

\* A filing failed and a later one of the same batch was parsed and kept.
C3_Witness ==
    /\ bpc = "done"
    /\ result # NilRec
    /\ Len(result.errors) >= 1
    /\ Len(result.filings) >= 1
    /\ result.errors[1].accessionNumber = filings[1].accessionNumber
    /\ netOutcome = "parse_error"

(***************************************************************************)
(* C4: a batch cancelled while it runs stops at the pacing step, fetches   *)
(* no further filing, and returns the filings parsed so far together with  *)
(* a Canceled error.                                                       *)
(***************************************************************************)
C4_CancelStopsAtPacing ==
    [][ (cancelRequested /\ bpc = "pace") =>
          \/ UNCHANGED vars
          \/ /\ bpc' = "done"
             /\ batchErr' = "Canceled"
             /\ fetchLog' = fetchLog
             /\ result'.filings = result.filings ]_vars

(***************************************************************************)
(* C5: with list_only the batch returns the filtered index records         *)
(* unchanged (same records, same order, total_found their count) and       *)
(* fetches and parses no filing.                                           *)
(***************************************************************************)
\* The records of the index that the request selects, in index order.
Selected(s, o) ==
    LET wanted(f) ==
          /\ matchesFormType(f.form, o.formType)
          /\ o.dateFrom # << >> => StrLE(o.dateFrom, f.filingDate)
          /\ o.dateTo # << >> => StrLE(f.filingDate, o.dateTo)
    IN SelectSeq(AllFilings(s, o), wanted)

C5_ListOnlyReturnsIndex ==
    (bpc # "init" /\ opts.listOnly /\ batchErr = "") =>
        /\ bpc = "done"
        /\ result.filingList = Selected(subs, opts)
        /\ result.totalFound = Len(result.filingList)
        /\ result.filings = << >>
        /\ fetchLog = << >>
        /\ parseLog = << >>

\* A list-only batch returned two or more records of a longer index.
C5_Witness ==
    /\ bpc = "done"
    /\ opts.listOnly
    /\ batchErr = ""
    /\ Len(result.filingList) >= 2
    /\ Len(result.filingList) < Len(AllFilings(subs, opts))

(***************************************************************************)
(* C6: the success list and the error list of a batch each keep the order  *)
(* of the filtered index.                                                  *)
(***************************************************************************)
\* Position of an accession number in the filtered index.
PosInIndex(acc) == CHOOSE k \in 1..Len(filings) : filings[k].accessionNumber = acc

InIndexOrder(entries) ==
    /\ \A i \in 1..Len(entries) :
          \E k \in 1..Len(filings) : filings[k].accessionNumber = entries[i].accessionNumber
    /\ \A i, j \in 1..Len(entries) :
          i < j => PosInIndex(entries[i].accessionNumber) < PosInIndex(entries[j].accessionNumber)

C6_OrderPreserved ==
    (bpc \in {"pace", "fetch", "parse", "done"} /\ result # NilRec) =>
        /\ InIndexOrder(result.filings)
        /\ InIndexOrder(result.errors)

\* Two filings were kept and two failed, interleaved in one batch.
C6_Witness ==
    /\ bpc = "done"
    /\ result # NilRec
    /\ Len(result.filings) >= 2
    /\ Len(result.errors) >= 2

(***************************************************************************)
(* C7: a batch whose cik, form_type or email is missing, whose email is    *)
(* bad (not an address, or in example.com), or whose submissions index     *)
(* cannot be fetched aborts at once: an error, no result, no filing fetch. *)
(***************************************************************************)
\* fetcher.go:33-39, the check GetSecEmail applies to SEC_EMAIL: the address
\* pattern, then the example.com suffix.
EmailRegexMatches(email) == email \in {"analyst@corp.com", "user@example.com"}

BadEmail(email) ==
    \/ ~EmailRegexMatches(email)
    \/ email = "user@example.com"

C7_CardinalFailuresAbort ==
    (bpc # "init" /\ (\/ opts.cik = ""
                      \/ opts.formType = << >>
                      \/ opts.email = ""
                      \/ BadEmail(opts.email)
                      \/ indexFetch = "failed")) =>
        /\ bpc = "aborted"
        /\ batchErr # ""
        /\ result = NilRec
        /\ fetchLog = << >>

(***************************************************************************)
(* C8: a transaction row of a Form 4 output, derivative or not, is marked  *)
(* is_10b51_plan only if one of its footnote IDs is a key of the 10b5-1    *)
(* map, or use_remarks_global is true and the map has the key __REMARKS__. *)
(***************************************************************************)
Rows(o) ==
    { o.transactions[k] : k \in 1..Len(o.transactions) }
    \cup { o.derivatives[k] : k \in 1..Len(o.derivatives) }

C8_PlanFlagHasEvidence ==
    out # NilRec =>
        \A r \in Rows(out) :
            r.is10b51Plan =>
                \/ \E k \in 1..Len(r.footnotes) : r.footnotes[k] \in DOMAIN out.tenb51Map
                \/ out.useRemarksGlobal /\ RemarksKey \in DOMAIN out.tenb51Map

\* A derivative row carries the flag on the strength of the remarks alone,
\* while a footnote it references is no 10b5-1 footnote.
C8_Witness ==
    /\ out # NilRec
    /\ out.useRemarksGlobal
    /\ \E k \in 1..Len(out.derivatives) :
          /\ out.derivatives[k].is10b51Plan
          /\ out.derivatives[k].footnotes # << >>

(***************************************************************************)
(* C9: use_remarks_global is true exactly when aff10b5One is true, no      *)
(* footnote classified as 10b5-1 and the remarks did (the map contains     *)
(* __REMARKS__, with or without an adoption date).                         *)
(***************************************************************************)
NoFootnoteClassified(f) ==
    \A n \in 1..Len(f.footnotes) : ~Extract10b51(f.footnotes[n].text).is10b51Plan

C9_RemarksGate ==
    out # NilRec =>
        (out.useRemarksGlobal <=>
            /\ form4.aff10b5One
            /\ NoFootnoteClassified(form4)
            /\ RemarksKey \in DOMAIN out.tenb51Map)

(***************************************************************************)
(* C10: a row that references a footnote of the 10b5-1 map is marked       *)
(* 10b5-1 and takes the date of that footnote, the first such footnote in  *)
(* the order of the row's fields (null when the map holds ""); the remarks *)
(* and their date are not applied to it.                                   *)
(***************************************************************************)
MapHits(r, m) == { k \in 1..Len(r.fields) : r.fields[k] \in DOMAIN m }

MaxPieces == 2        \* pieces an input text is made of

\* strings.ReplaceAll: non-overlapping occurrences of old, left to right.
RECURSIVE ReplaceAll(_, _, _)
ReplaceAll(s, old, new) ==
    IF Len(s) < Len(old) THEN s
    ELSE IF SubSeq(s, 1, Len(old)) = old
         THEN new \o ReplaceAll(SubSeq(s, Len(old) + 1, Len(s)), old, new)
         ELSE <<s[1]>> \o ReplaceAll(Tail(s), old, new)

\* Entries of the replacements map of normalizeHTMLEntities (part_007:209-235).
\* "&amp;" is the only entry whose replacement can begin another entity;
\* every other entry of the map behaves as the three others kept here.
E_nbsp == [entity |-> <<"&","n","b","s","p",";">>, replacement |-> <<" ">>]
E_amp == [entity |-> <<"&","a","m","p",";">>, replacement |-> <<"&">>]
E_lt == [entity |-> <<"&","l","t",";">>, replacement |-> <<"<">>]
E_8220 == [entity |-> <<"&","#","8","2","2","0",";">>, replacement |-> <<"U+201C">>]

replacements == {E_nbsp, E_amp, E_lt, E_8220}

\* The orders in which `for entity, replacement := range replacements` may
\* visit the map: Go leaves the iteration order of a map unspecified.
MapOrders ==
    { q \in [1..Cardinality(replacements) -> replacements] :
        \A i, j \in 1..Cardinality(replacements) : i # j => q[i] # q[j] }

RECURSIVE ApplyReplacements(_, _)
ApplyReplacements(text, order) ==
    IF order = << >> THEN text
    ELSE ApplyReplacements(ReplaceAll(text, Head(order).entity, Head(order).replacement),
                           Tail(order))

Digits == {"0","1","2","3","4","5","6","7","8","9"}

DigitValue(c) ==
    CASE c = "0" -> 0 [] c = "1" -> 1 [] c = "2" -> 2 [] c = "3" -> 3 [] c = "4" -> 4
      [] c = "5" -> 5 [] c = "6" -> 6 [] c = "7" -> 7 [] c = "8" -> 8 [] c = "9" -> 9

\* Number of leading digits of s.
RECURSIVE LeadingDigits(_)
LeadingDigits(s) ==
    IF s # << >> /\ Head(s) \in Digits THEN 1 + LeadingDigits(Tail(s)) ELSE 0

\* fmt.Sscanf(match, "&#%d;", &code) on a run of digits.
RECURSIVE DecimalValue(_, _)
DecimalValue(s, acc) ==
    IF s = << >> THEN acc ELSE DecimalValue(Tail(s), 10 * acc + DigitValue(Head(s)))

\* string(rune(code)) for the code points the input texts use.
RuneOf(code) ==
    CASE code = 10 -> "LF"
      [] code = 13 -> "CR"
      [] code = 32 -> " "
      [] code = 38 -> "&"
      [] code = 60 -> "<"
      [] code = 8203 -> "U+200B"
      [] OTHER -> "U+FFFD"

MaxRune == 1114112    \* 0x110000, part_007:261

\* The function handed to ReplaceAllStringFunc (part_007:239-267).
NumericReplacement(match, code) ==
    CASE code = 160 -> <<" ">>
      [] code = 8211 -> <<"U+2013">>
      [] code = 8212 -> <<"U+2014">>
      [] code \in {8220, 8221} -> <<"\"">>
      [] code = 8217 -> <<"'">>
      [] OTHER -> IF code < MaxRune THEN <<RuneOf(code)>> ELSE match

\* numericEntityPattern.ReplaceAllStringFunc for the pattern &#(\d+);
RECURSIVE ReplaceNumericEntities(_)
ReplaceNumericEntities(s) ==
    IF s = << >> THEN << >>
    ELSE LET k == IF Len(s) >= 2 /\ s[1] = "&" /\ s[2] = "#"
                  THEN LeadingDigits(SubSeq(s, 3, Len(s))) ELSE 0
         IN  IF k >= 1 /\ Len(s) >= k + 3 /\ s[k + 3] = ";"
             THEN NumericReplacement(SubSeq(s, 1, k + 3),
                                     DecimalValue(SubSeq(s, 3, k + 2), 0))
                  \o ReplaceNumericEntities(SubSeq(s, k + 4, Len(s)))
             ELSE <<s[1]>> \o ReplaceNumericEntities(Tail(s))

normalizeHTMLEntities(text, order) ==
    ReplaceNumericEntities(ApplyReplacements(text, order))

\* The runes normalizeWhitespace turns into a space (part_007:281-292).
UnicodeSpaces ==
    {"U+00A0", "U+2000", "U+2001", "U+2002", "U+2003", "U+2004", "U+2005",
     "U+2006", "U+2007", "U+2008", "U+2009", "U+200A", "U+202F", "U+205F", "U+3000"}

normalizeWhitespace(text) ==
    [i \in 1..Len(text) |-> IF text[i] \in UnicodeSpaces THEN " " ELSE text[i]]

\* The runes removeInvisibleChars drops: the five listed ones and the rest
\* of category Cf, of which the soft hyphen and the word joiner stand here.
InvisibleChars == {"U+200B", "U+200C", "U+200D", "U+FEFF", "U+180E", "U+00AD", "U+2060"}

removeInvisibleChars(text) ==
    LET Visible(r) == r \notin InvisibleChars IN SelectSeq(text, Visible)

NormalizeTextOf(data, order) ==
    LET t1 == normalizeHTMLEntities(data, order)
        t2 == normalizeWhitespace(t1)
        t3 == removeInvisibleChars(t2)
        t4 == ReplaceAll(t3, <<"CR", "LF">>, <<"LF">>)
    IN  ReplaceAll(t4, <<"CR">>, <<"LF">>)

\* The pieces input texts are made of: entities, escaped entities and their
\* tails, special runes, line ends and plain characters.
Pieces ==
    { E_amp.entity, E_nbsp.entity, E_lt.entity, E_8220.entity,
      <<"&","#","3","8",";">>, <<"&","#","8","2","0","3",";">>,
      <<"a","m","p",";">>, <<"l","t",";">>, <<"#","1","6","0",";">>,
      <<"U+00A0">>, <<"U+200B">>, <<"CR">>, <<"LF">>, <<"x">>, <<" ">> }

RECURSIVE Concat(_)
Concat(ps) == IF ps = << >> THEN << >> ELSE Head(ps) \o Concat(Tail(ps))

Texts == { Concat(ps) : ps \in UNION { [1..n -> Pieces] : n \in 0..MaxPieces } }

\* NormalizeText (part_007:187-204), called on the input first and on its
\* own result afterwards.
NormalizeText(order) ==
    /\ output' = Append(output,
          NormalizeTextOf(IF output = << >> THEN input.data ELSE output[Len(output)],
                          order))
    /\ UNCHANGED input
    /\ UNCHANGED <<fetchVars, batchVars, form4Vars, acqVars>>

NormalizeNext ==
    /\ Len(output) < 2
    /\ \E order \in MapOrders : NormalizeText(order)

NormalizeInit ==
    /\ FetchInit({1}) /\ BatchIdle /\ Form4Idle /\ AcquireIdle
    /\ input \in { [data |-> t] : t \in Texts }
    /\ output = << >>

SpecNormalize == NormalizeInit /\ [][NormalizeNext]_vars

(***************************************************************************)
(* C11: the full text normalizer is idempotent: normalizing an already     *)
(* normalized text gives that text back, N(N(x)) = N(x).                   *)
(***************************************************************************)
C11_Idempotent ==
    Len(output) = 2 => output[2] = output[1]

(***************************************************************************)
(* The filing filters called on their own (FilterByForm, FilterByDateRange *)
(* of submissions.go, src/unnamed/part_011), as TestCombinedFiltering and  *)
(* TestFilterByDateRange call them.                                        *)
(***************************************************************************)
MaxList == 2          \* filings in a list handed to a filter

Form_SC13D == <<"S", "C", " ", "1", "3", "D">>
Form_SC13G == <<"S", "C", " ", "1", "3", "G">>
Form_SC13GA == <<"S", "C", " ", "1", "3", "G", "/", "A">>
Form_13G == <<"1", "3", "G">>
Form_13DA == <<"1", "3", "D", "/", "A">>
Form_13 == <<"1", "3">>

\* Filing values (part_011:64-82), the fields the filters read.
FilterPool ==
    { [accessionNumber |-> "F1", form |-> Form_4, filingDate |-> D_2024_12_01],
      [accessionNumber |-> "F2", form |-> Form_4, filingDate |-> D_2025_03_10],
      [accessionNumber |-> "F3", form |-> Form_4A, filingDate |-> D_2025_03_10],
      [accessionNumber |-> "F4", form |-> Form_4A, filingDate |-> D_2025_06_30],
      [accessionNumber |-> "F5", form |-> Form_SC13D, filingDate |-> D_2024_12_01],
      [accessionNumber |-> "F6", form |-> Form_SC13DA, filingDate |-> D_2025_03_10],
      [accessionNumber |-> "F7", form |-> Form_SC13G, filingDate |-> D_2025_03_10],
      [accessionNumber |-> "F8", form |-> Form_SC13GA, filingDate |-> D_2025_06_30] }

FilterInputs ==
    [ filings : UNION { [1..n -> FilterPool] : n \in 0..MaxList },
      formType : {Form_4, Form_4A, Form_13D, Form_13G, Form_13DA, Form_SC13D, Form_13},
      from : {<< >>, D_2025_03_10, D_2025_06_30},
      to : {<< >>, D_2024_12_01, D_2025_03_10} ]

\* filtered := FilterByForm(filings, formType)
ByForm ==
    /\ "byForm" \notin output.done
    /\ output' = [output EXCEPT !.byForm = FilterByForm(input.filings, input.formType),
                                !.done = @ \cup {"byForm"}]
    /\ UNCHANGED input
    /\ UNCHANGED <<fetchVars, batchVars, form4Vars, acqVars>>

\* filtered := FilterByDateRange(filings, from, to)
ByDate ==
    /\ "byDate" \notin output.done
    /\ output' = [output EXCEPT !.byDate = FilterByDateRange(input.filings, input.from, input.to),
                                !.done = @ \cup {"byDate"}]
    /\ UNCHANGED input
    /\ UNCHANGED <<fetchVars, batchVars, form4Vars, acqVars>>

\* FilterByDateRange on what FilterByForm returned (part_012:157-158).
FormThenDate ==
    /\ "byForm" \in output.done
    /\ "formThenDate" \notin output.done
    /\ output' = [output EXCEPT !.formThenDate = FilterByDateRange(output.byForm, input.from, input.to),
                                !.done = @ \cup {"formThenDate"}]
    /\ UNCHANGED input
    /\ UNCHANGED <<fetchVars, batchVars, form4Vars, acqVars>>

\* FilterByForm on what FilterByDateRange returned.
DateThenForm ==
    /\ "byDate" \in output.done
    /\ "dateThenForm" \notin output.done
    /\ output' = [output EXCEPT !.dateThenForm = FilterByForm(output.byDate, input.formType),
                                !.done = @ \cup {"dateThenForm"}]
    /\ UNCHANGED input
    /\ UNCHANGED <<fetchVars, batchVars, form4Vars, acqVars>>

FilterNext == ByForm \/ ByDate \/ FormThenDate \/ DateThenForm

FilterInit ==
    /\ FetchInit({1}) /\ BatchIdle /\ Form4Idle /\ AcquireIdle
    /\ input \in FilterInputs
    /\ output = [done |-> {}, byForm |-> << >>, byDate |-> << >>,
                 formThenDate |-> << >>, dateThenForm |-> << >>]

SpecFilter == FilterInit /\ [][FilterNext]_vars

(***************************************************************************)
(* C12: the form filter and the date filter commute: filtering a list by   *)
(* form and then by date gives the same filings in the same order as       *)
(* filtering it by date and then by form.                                  *)
(***************************************************************************)
C12_FiltersCommute ==
    {"formThenDate", "dateThenForm"} \subseteq output.done
        => output.formThenDate = output.dateThenForm

\* Both orders were run on a list of which each filter drops a filing and
\* the two together keep one.
C12_Witness ==
    /\ {"formThenDate", "dateThenForm"} \subseteq output.done
    /\ Len(output.byForm) < Len(input.filings)
    /\ Len(output.byDate) < Len(input.filings)
    /\ Len(output.formThenDate) = 1
    /\ Len(output.dateThenForm) = 1

(***************************************************************************)
(* C13: the date-range filter keeps exactly the filings whose filing date  *)
(* d satisfies from <= d <= to, both ends inclusive, an empty from or an   *)
(* empty to putting no bound on its side.                                  *)
(***************************************************************************)
\* A YYYY-MM-DD date as the number YYYYMMDD.
DateNumber(d) ==
    DecimalValue(SubSeq(d, 1, 4) \o SubSeq(d, 6, 7) \o SubSeq(d, 9, 10), 0)

InDateRange(f, from, to) ==
    /\ from = << >> \/ DateNumber(from) <= DateNumber(f.filingDate)
    /\ to = << >> \/ DateNumber(f.filingDate) <= DateNumber(to)

C13_DateRangeInclusive ==
    "byDate" \in output.done =>
        LET Keep(f) == InDateRange(f, input.from, input.to)
        IN  output.byDate = SelectSeq(input.filings, Keep)

(***************************************************************************)
(* C14: for a request other than the wildcard "13", a form matches when it *)
(* equals the request after a bare 13D, 13G, 13D/A or 13G/A was prefixed   *)
(* with "SC "; a form that begins with the normalized request and "/" also *)
(* matches, but only when the normalized request starts with "SC 13".  So  *)
(* 13D matches SC 13D and SC 13D/A, and 4 matches 4 and never 4/A.         *)
(***************************************************************************)
BareSchedule13 ==
    {Form_13D, Form_13G, Form_13DA, <<"1", "3", "G", "/", "A">>}

Prefixed(request) ==
    IF request \in BareSchedule13 THEN <<"S", "C", " ">> \o request ELSE request

ShouldMatch(form, request) ==
    \/ form = Prefixed(request)
    \/ /\ Len(Prefixed(request)) >= 5
       /\ SubSeq(Prefixed(request), 1, 5) = <<"S", "C", " ", "1", "3">>
       /\ Len(form) > Len(Prefixed(request))
       /\ SubSeq(form, 1, Len(Prefixed(request)) + 1) = Prefixed(request) \o <<"/">>

C14_FormMatching ==
    ("byForm" \in output.done /\ input.formType # Form_13) =>
        LET Keep(f) == ShouldMatch(f.form, input.formType)
        IN  output.byForm = SelectSeq(input.filings, Keep)

\* A request for 13D kept an SC 13D/A filing, or a request for 4 dropped a
\* 4/A filing.
C14_Witness ==
    /\ "byForm" \in output.done
    /\ Len(input.filings) = 2
    /\ Len(output.byForm) = 1
    /\ \/ /\ input.formType = Form_13D
          /\ output.byForm[1].form = Form_SC13DA
       \/ /\ input.formType = Form_4
          /\ \E i \in 1..2 : input.filings[i].form = Form_4A

(***************************************************************************)
(* The column arrays of a submissions index turned into filings            *)
(* (FilingArrays.GetFilings and Filing.BuildURL, src/unnamed/part_011).    *)
(***************************************************************************)
MaxRows == 2          \* accession numbers in the index

\* strings.TrimLeft(s, "0")
RECURSIVE TrimLeftZeros(_)
TrimLeftZeros(s) ==
    IF s # << >> /\ Head(s) = "0" THEN TrimLeftZeros(Tail(s)) ELSE s

\* parts[len(parts)-1] of strings.Split(doc, "/")
RECURSIVE LastSegment(_)
LastSegment(doc) ==
    IF \E i \in 1..Len(doc) : doc[i] = "/"
    THEN LastSegment(Tail(doc))
    ELSE doc

ArchivesRoot == <<"https://www.sec.gov/Archives/edgar/data/">>

\* BuildURL without the strip of the xsl path prefix.
BuildURL_KeepsDirectory(f) ==
    ArchivesRoot \o TrimLeftZeros(f.cik) \o <<"/">>
        \o ReplaceAll(f.accessionNumber, <<"-">>, << >>) \o <<"/">> \o f.primaryDocument

\* part_011:187-206
BuildURL(f) ==
    LET accessionPath == ReplaceAll(f.accessionNumber, <<"-">>, << >>)
        doc == IF \E i \in 1..Len(f.primaryDocument) : f.primaryDocument[i] = "/"
               THEN LastSegment(f.primaryDocument)
               ELSE f.primaryDocument
    IN  ArchivesRoot \o TrimLeftZeros(f.cik) \o <<"/">> \o accessionPath \o <<"/">> \o doc

\* The zero Filing with the five fields GetFilings sets unconditionally.
NewFiling(cik, accessionNumber, filingDate, form, primaryDocument) ==
    [cik |-> cik, accessionNumber |-> accessionNumber, filingDate |-> filingDate,
     form |-> form, primaryDocument |-> primaryDocument,
     reportDate |-> << >>, size |-> 0, isXBRL |-> FALSE, url |-> << >>]

\* One pass of the loop body of GetFilings (part_011:136-180); the caller
\* has made sure the three unchecked columns reach row i.
FilingAt(fa, cik, i) ==
    LET f0 == NewFiling(cik, fa.accessionNumber[i], fa.filingDate[i], fa.form[i],
                        fa.primaryDocument[i])
        f1 == IF i <= Len(fa.reportDate) THEN [f0 EXCEPT !.reportDate = fa.reportDate[i]] ELSE f0
        f2 == IF i <= Len(fa.size) THEN [f1 EXCEPT !.size = fa.size[i]] ELSE f1
        f3 == IF i <= Len(fa.isXBRL) THEN [f2 EXCEPT !.isXBRL = (fa.isXBRL[i] # 0)] ELSE f2
    IN  [f3 EXCEPT !.url = BuildURL(f3)]

\* part_011:132-184.  fa.FilingDate[i], fa.Form[i] and fa.PrimaryDocument[i]
\* are read without a length test: a row beyond one of them is an index out
\* of range, which panics.
GetFilingsOf(fa, cik) ==
    LET count == Len(fa.accessionNumber) IN
    IF \E i \in 1..count :
          i > Len(fa.filingDate) \/ i > Len(fa.form) \/ i > Len(fa.primaryDocument)
    THEN [status |-> "panic: index out of range", filings |-> << >>]
    ELSE [status |-> "ok", filings |-> [i \in 1..count |-> FilingAt(fa, cik, i)]]

\* Row i of the columns of a well-formed index.
AccessionAt(i) == <<"0", "1", "-", "2", "5", "-">> \o <<CHOOSE c \in Digits : DigitValue(c) = i % 10>>
FilingDateAt(i) == IF i % 2 = 1 THEN D_2025_03_10 ELSE D_2025_01_15
FormAt(i) == IF i % 2 = 1 THEN Form_4 ELSE Form_SC13DA
PrimaryDocumentAt(i) ==
    IF i % 2 = 1 THEN <<"x", "s", "l", "F", "3", "4", "5", "/", "d", "o", "c", "4", ".", "x", "m", "l">>
    ELSE <<"s", "c", "1", "3", "d", "a", ".", "h", "t", "m">>
ReportDateAt(i) == IF i % 2 = 1 THEN D_2025_01_15 ELSE D_2024_12_01
SizeAt(i) == 4000 + i
IsXBRLAt(i) == i % 2

\* Every combination of column lengths, each column a prefix of the
\* well-formed one or one row longer than the accession numbers.
IndexColumns ==
    { [accessionNumber |-> [i \in 1..n |-> AccessionAt(i)],
       filingDate |-> [i \in 1..d |-> FilingDateAt(i)],
       form |-> [i \in 1..f |-> FormAt(i)],
       primaryDocument |-> [i \in 1..p |-> PrimaryDocumentAt(i)],
       reportDate |-> [i \in 1..r |-> ReportDateAt(i)],
       size |-> [i \in 1..z |-> SizeAt(i)],
       isXBRL |-> [i \in 1..x |-> IsXBRLAt(i)]] :
      n \in 0..MaxRows, d \in 0..MaxRows + 1, f \in 0..MaxRows + 1, p \in 0..MaxRows + 1,
      r \in 0..MaxRows + 1, z \in 0..MaxRows + 1, x \in 0..MaxRows + 1 }

SampleCIK == <<"0", "0", "0", "7", "8", "0", "0", "3">>

\* subs.GetRecentFilings(), part_011:209-211
GetFilings ==
    /\ output = NilRec
    /\ output' = GetFilingsOf(input.recent, input.cik)
    /\ UNCHANGED input
    /\ UNCHANGED <<fetchVars, batchVars, form4Vars, acqVars>>

IndexInit ==
    /\ FetchInit({1}) /\ BatchIdle /\ Form4Idle /\ AcquireIdle
    /\ input \in { [cik |-> SampleCIK, recent |-> fa] : fa \in IndexColumns }
    /\ output = NilRec

SpecIndex == IndexInit /\ [][GetFilings]_vars

(***************************************************************************)
(* C15: recent_filings succeeds whatever the lengths of the columns: one   *)
(* Filing per accession number, and a column shorter than the accession    *)
(* numbers leaves its field empty in the rows it does not reach.           *)
(***************************************************************************)
CellOrEmpty(col, i, empty) == IF i <= Len(col) THEN col[i] ELSE empty

C15_UnequalColumnsTolerated ==
    output # NilRec =>
        LET fa == input.recent IN
        /\ output.status = "ok"
        /\ Len(output.filings) = Len(fa.accessionNumber)
        /\ \A i \in 1..Len(output.filings) :
              /\ output.filings[i].accessionNumber = fa.accessionNumber[i]
              /\ output.filings[i].filingDate = CellOrEmpty(fa.filingDate, i, << >>)
              /\ output.filings[i].form = CellOrEmpty(fa.form, i, << >>)
              /\ output.filings[i].primaryDocument = CellOrEmpty(fa.primaryDocument, i, << >>)
              /\ output.filings[i].reportDate = CellOrEmpty(fa.reportDate, i, << >>)
              /\ output.filings[i].size = CellOrEmpty(fa.size, i, 0)
              /\ output.filings[i].isXBRL = (CellOrEmpty(fa.isXBRL, i, 0) # 0)

(***************************************************************************)
(* C16: FetchForm with an email that is not a well-formed address, or is   *)
(* in the example.com domain, fails with a configuration error and puts no *)
(* HTTP request on the wire.                                               *)
(***************************************************************************)
C16_BadEmailRejected ==
    /\ \A t \in DOMAIN pc : pc[t] # "idle" => ~BadEmail(arg[t])
    /\ \A i \in 1..Len(requests) :
          requests[i].kind = "filing" => ~BadEmail(requests[i].userAgent[4])

(***************************************************************************)
(* C18: FetchForm fails with the status error exactly when the response    *)
(* status is outside 200..299; for every 2xx response it returns the body. *)
(***************************************************************************)
StatusCode(outcome) ==
    CASE outcome = "status_200" -> 200
      [] outcome = "status_204" -> 204
      [] outcome = "status_404" -> 404
      [] outcome = "status_503" -> 503

StatusOutcomes == {"status_200", "status_204", "status_404", "status_503"}

Is2xx(outcome) == StatusCode(outcome) >= 200 /\ StatusCode(outcome) <= 299

C18_StatusErrorIffNot2xx ==
    \A t \in DOMAIN pc :
        (pc[t] = "idle" /\ resp[t] \in StatusOutcomes) =>
            /\ ret[t] = "err_status" <=> ~Is2xx(resp[t])
            /\ Is2xx(resp[t]) => ret[t] = "ok"

(***************************************************************************)
(* The index requests of submissions.go (src/unnamed/part_011):            *)
(* FetchSubmissions, FetchPaginatedFilings and GetAllFilings build and     *)
(* send their own HTTP requests.  One goroutine (caller 1) calls them and  *)
(* FetchForm in any order, one call after the other.                       *)
(***************************************************************************)
MaxOps == 2           \* library calls the goroutine makes in all
MaxFiles == 2         \* paginated files an index names

PageSleep == 100      \* part_011:365, time.Sleep(100 * time.Millisecond)

\* part_011:98 and part_011:324: fmt.Sprintf("go-edgar %s", email), kept as
\* the pieces the format string puts together.
IndexUserAgent(email) == <<"go-edgar ", email>>

\* How client.Do, the status test and the JSON decoding of an index request end.
IndexOutcomes == {"transport_error", "status_200", "status_404", "decode_error"}

\* part_011:85-103: FetchSubmissions up to client.Do.  Neither the email nor
\* lastRequestTime is looked at.
FetchSubmissionsSend(email) ==
    /\ apc = "idle" /\ pc[1] = "idle"
    /\ calls + ops < MaxOps
    /\ ops' = ops + 1
    /\ arg' = [arg EXCEPT ![1] = email]
    /\ requests' = Append(requests,
          [at |-> now, by |-> 1, kind |-> "index", userAgent |-> IndexUserAgent(email)])
    /\ apc' = "index_inflight"
    /\ ret' = [ret EXCEPT ![1] = "pending"]
    /\ resp' = [resp EXCEPT ![1] = "none"]
    /\ UNCHANGED <<now, lastRequestTime, pc, wakeAt, calls, page, nfiles>>
    /\ UNCHANGED <<batchVars, form4Vars, pureVars>>

\* The return value of an index request that ended in outcome.
IndexReturn(outcome) ==
    CASE outcome = "status_200" -> "ok"
      [] outcome = "transport_error" -> "err_transport"
      [] outcome = "decode_error" -> "err_decode"
      [] OTHER -> "err_status"

\* part_011:103-119: client.Do returns, status test, JSON decoding.
FetchSubmissionsRespond(outcome) ==
    /\ apc = "index_inflight"
    /\ apc' = "idle"
    /\ arg' = [arg EXCEPT ![1] = ""]
    /\ resp' = [resp EXCEPT ![1] = outcome]
    /\ ret' = [ret EXCEPT ![1] = IndexReturn(outcome)]
    /\ UNCHANGED <<now, lastRequestTime, pc, wakeAt, requests, calls, page, nfiles, ops>>
    /\ UNCHANGED <<batchVars, form4Vars, pureVars>>

\* part_011:349-354: GetAllFilings on an index naming n paginated files.
GetAllFilingsCall(email, n) ==
    /\ apc = "idle" /\ pc[1] = "idle"
    /\ calls + ops < MaxOps
    /\ ops' = ops + 1
    /\ nfiles' = n
    /\ resp' = [resp EXCEPT ![1] = "none"]
    /\ IF n = 0
          THEN /\ apc' = "idle"
               /\ page' = 0
               /\ arg' = arg
               /\ ret' = [ret EXCEPT ![1] = "ok"]
          ELSE /\ apc' = "page_create"
               /\ page' = 1
               /\ arg' = [arg EXCEPT ![1] = email]
               /\ ret' = [ret EXCEPT ![1] = "pending"]
    /\ UNCHANGED <<now, lastRequestTime, pc, wakeAt, requests, calls>>
    /\ UNCHANGED <<batchVars, form4Vars, pureVars>>

\* part_011:313-329: FetchPaginatedFilings up to client.Do.
FetchPaginatedFilingsSend ==
    /\ apc = "page_create"
    /\ requests' = Append(requests,
          [at |-> now, by |-> 1, kind |-> "page", userAgent |-> IndexUserAgent(arg[1])])
    /\ apc' = "page_inflight"
    /\ UNCHANGED <<now, lastRequestTime, pc, wakeAt, ret, calls, arg, resp, page, nfiles, ops>>
    /\ UNCHANGED <<batchVars, form4Vars, pureVars>>

\* part_011:329-344 and 355-365: the page arrives; on an error GetAllFilings
\* returns it, otherwise it appends the filings and sleeps.
FetchPaginatedFilingsRespond(outcome) ==
    /\ apc = "page_inflight"
    /\ resp' = [resp EXCEPT ![1] = outcome]
    /\ IF outcome = "status_200"
          THEN /\ apc' = "page_sleep"
               /\ wakeAt' = [wakeAt EXCEPT ![1] = now + PageSleep]
               /\ UNCHANGED <<ret, arg>>
          ELSE /\ apc' = "idle"
               /\ ret' = [ret EXCEPT ![1] = IndexReturn(outcome)]
               /\ arg' = [arg EXCEPT ![1] = ""]
               /\ wakeAt' = wakeAt
    /\ UNCHANGED <<now, lastRequestTime, pc, requests, calls, page, nfiles, ops>>
    /\ UNCHANGED <<batchVars, form4Vars, pureVars>>

\* part_011:365-368: the sleep ends; next file, or return all filings.
PageWake ==
    /\ apc = "page_sleep"
    /\ now >= wakeAt[1]
    /\ IF page < nfiles
          THEN /\ page' = page + 1
               /\ apc' = "page_create"
               /\ UNCHANGED <<ret, arg>>
          ELSE /\ page' = page
               /\ apc' = "idle"
               /\ ret' = [ret EXCEPT ![1] = "ok"]
               /\ arg' = [arg EXCEPT ![1] = ""]
    /\ UNCHANGED <<now, lastRequestTime, pc, wakeAt, requests, calls, resp, nfiles, ops>>
    /\ UNCHANGED <<batchVars, form4Vars, pureVars>>

AcquireNext ==
    \/ /\ apc = "idle"
       /\ calls + ops < MaxOps
       /\ \E email \in ConcEmails : Call(1, email)
    \/ RateLimitCheck(1)
    \/ Wake(1)
    \/ \E urlOK \in BOOLEAN : Send(1, urlOK)
    \/ \E outcome \in Outcomes : Respond(1, outcome)
    \/ Tick
    \/ \E email \in ConcEmails : FetchSubmissionsSend(email)
    \/ \E outcome \in IndexOutcomes : FetchSubmissionsRespond(outcome)
    \/ \E email \in ConcEmails, n \in 0..MaxFiles : GetAllFilingsCall(email, n)
    \/ FetchPaginatedFilingsSend
    \/ \E outcome \in IndexOutcomes : FetchPaginatedFilingsRespond(outcome)
    \/ PageWake

AcquireInit == FetchInit({1}) /\ BatchIdle /\ Form4Idle /\ PureIdle /\ AcquireIdle

SpecAcquire == AcquireInit /\ [][AcquireNext]_vars

(***************************************************************************)
(* C17: every HTTP request sent to SEC, for a filing, for the submissions  *)
(* index or for a paginated file, carries a User-Agent of the shape        *)
(* go-edgar/<version> (<email>).                                           *)
(***************************************************************************)
HasUserAgentShape(ua) ==
    /\ Len(ua) = 5
    /\ ua[1] = "go-edgar/"
    /\ ua[2] = VERSION
    /\ ua[3] = " ("
    /\ ua[5] = ")"

C17_UserAgentShape ==
    \A i \in 1..Len(requests) : HasUserAgentShape(requests[i].userAgent)

(***************************************************************************)
(* C19: every paginated-file request of GetAllFilings goes out at least    *)
(* 100 ms after the request the process sent before it, be that the index  *)
(* request, a filing request or the previous paginated file.               *)
(***************************************************************************)
C19_PagesPaced ==
    \A i \in 2..Len(requests) :
        requests[i].kind = "page" => requests[i].at - requests[i - 1].at >= RateLimit

(***************************************************************************)
(* Schedule 13 share aggregation (Schedule13Filing.CalculateTotalShares,   *)
(* src/unnamed/part_008).                                                  *)
(***************************************************************************)
MaxPersons == 3       \* reporting persons of a filing

\* AggregateAmountOwned comes from parseInt64 (part_008:553-580), which reads
\* an unsigned run of digits: it is never negative.
Amounts == {0, 5, 10}

ReportingPersons ==
    [ aggregateAmountOwned : Amounts,
      memberOfGroup : {"a", "b", ""},
      isAggregateExclude : BOOLEAN ]

\* The running maximum of part_008:311-316, starting from max.
RECURSIVE MaxFrom(_, _)
MaxFrom(ps, max) ==
    IF ps = << >> THEN max
    ELSE MaxFrom(Tail(ps),
                 IF Head(ps).aggregateAmountOwned > max
                 THEN Head(ps).aggregateAmountOwned ELSE max)

\* The running total of part_008:321-324.
RECURSIVE SumFrom(_, _)
SumFrom(ps, total) ==
    IF ps = << >> THEN total
    ELSE SumFrom(Tail(ps), total + Head(ps).aggregateAmountOwned)

\* CalculateTotalShares adding up the joint filers as it does the others.
CalculateTotalSharesOf_SumsGroup(reportingPersons) ==
    LET NotExcluded(p) == ~p.isAggregateExclude
        included == SelectSeq(reportingPersons, NotExcluded)
    IN  SumFrom(included, 0)

\* part_008:292-326
CalculateTotalSharesOf(reportingPersons) ==
    LET NotExcluded(p) == ~p.isAggregateExclude
        InGroup(p) == p.memberOfGroup = "a"
        included == SelectSeq(reportingPersons, NotExcluded)
        groupMembers == SelectSeq(included, InGroup)
    IN  IF Len(groupMembers) > 0
        THEN MaxFrom(groupMembers, 0)
        ELSE SumFrom(included, 0)

CalculateTotalShares ==
    /\ output = NilRec
    /\ output' = [totalShares |-> CalculateTotalSharesOf(input.reportingPersons)]
    /\ UNCHANGED input
    /\ UNCHANGED <<fetchVars, batchVars, form4Vars, acqVars>>

SharesInit ==
    /\ FetchInit({1}) /\ BatchIdle /\ Form4Idle /\ AcquireIdle
    /\ input \in { [reportingPersons |-> ps] :
                     ps \in UNION { [1..n -> ReportingPersons] : n \in 0..MaxPersons } }
    /\ output = NilRec

SpecShares == SharesInit /\ [][CalculateTotalShares]_vars

(***************************************************************************)
(* C20: when at least one reporting person that is not aggregate-excluded  *)
(* has member_of_group "a", total_shares is the largest aggregate amount   *)
(* among the included group-"a" persons, and is at most the sum of the     *)
(* aggregate amounts of all included persons.                              *)
(***************************************************************************)
IncludedIndexes == { i \in 1..Len(input.reportingPersons) :
                       ~input.reportingPersons[i].isAggregateExclude }

GroupIndexes == { i \in IncludedIndexes : input.reportingPersons[i].memberOfGroup = "a" }

RECURSIVE SumOver(_)
SumOver(I) ==
    IF I = {} THEN 0
    ELSE LET i == CHOOSE j \in I : TRUE
         IN  input.reportingPersons[i].aggregateAmountOwned + SumOver(I \ {i})

C22_DocumentFlagIffMention ==
    out # NilRec =>
        (out.has10b51Plan <=>
            \/ form4.aff10b5One
            \/ \E n \in 1..Len(form4.footnotes) : re10b51(form4.footnotes[n].text))

(***************************************************************************)
(* C23: the footnote-ID list of every Form 4 transaction row holds each    *)
(* footnote ID that a field of the row refers to exactly once, in the      *)
(* order in which the IDs first occur among the fields, and no empty ID.   *)
(***************************************************************************)
FirstField(r, id) == Min({ k \in 1..Len(r.fields) : r.fields[k] = id })

C23_FootnoteIdsFirstOccurrence ==
    out # NilRec =>
        \A r \in Rows(out) :
            /\ { r.footnotes[k] : k \in 1..Len(r.footnotes) }
                 = { r.fields[k] : k \in 1..Len(r.fields) } \ {""}
            /\ \A a, b \in 1..Len(r.footnotes) :
                  a < b => /\ r.footnotes[a] # r.footnotes[b]
                           /\ FirstField(r, r.footnotes[a]) < FirstField(r, r.footnotes[b])

\* A row whose fields name F2, then F1, then F2 again, with an empty field:
\* its list is F2, F1.
C23_Witness ==
    /\ out # NilRec
    /\ \E r \in Rows(out) :
          /\ r.footnotes = <<"F2", "F1">>
          /\ r.fields[1] = "F2"
          /\ \E k \in 3..Len(r.fields) : r.fields[k] = "F2"
          /\ \E k \in 1..Len(r.fields) : r.fields[k] = ""

(***************************************************************************)
(* C28: for every filing of a submissions index, the last path segment of  *)
(* the built URL is the primary document name without its leading          *)
(* directory components, and the URL is                                    *)
(* https://www.sec.gov/Archives/edgar/data/<cik without leading zeros>/    *)
(* <accession without dashes>/<doc>.                                       *)
(***************************************************************************)
AfterLastSlash(s) ==
    LET slashes == { k \in 1..Len(s) : s[k] = "/" }
    IN  IF slashes = {} THEN s ELSE SubSeq(s, Max(slashes) + 1, Len(s))

WithoutDashes(s) == SelectSeq(s, LAMBDA c : c # "-")

WithoutLeadingZeros(s) ==
    LET nonZero == { k \in 1..Len(s) : s[k] # "0" }
    IN  IF nonZero = {} THEN << >> ELSE SubSeq(s, Min(nonZero), Len(s))

C28_URLShape ==
    output # NilRec =>
        \A i \in 1..Len(output.filings) :
            LET f == output.filings[i]
                doc == AfterLastSlash(f.primaryDocument)
            IN  /\ f.url = ArchivesRoot \o WithoutLeadingZeros(f.cik) \o <<"/">>
                             \o WithoutDashes(f.accessionNumber) \o <<"/">> \o doc
                /\ AfterLastSlash(Tail(f.url)) = doc
                /\ \A k \in 1..Len(doc) : doc[k] # "/"

\* A Form 4 row whose primary document is xslF345/doc4.xml, under a CIK with
\* leading zeros and an accession number with dashes.
C28_Witness ==
    /\ output # NilRec
    /\ \E i \in 1..Len(output.filings) :
          LET f == output.filings[i] IN
          /\ \E k \in 1..Len(f.primaryDocument) : f.primaryDocument[k] = "/"
          /\ Head(f.cik) = "0"
          /\ \E k \in 1..Len(f.accessionNumber) : f.accessionNumber[k] = "-"
          /\ AfterLastSlash(Tail(f.url)) = <<"d", "o", "c", "4", ".", "x", "m", "l">>

(***************************************************************************)
(* C29: in a batch that is not list-only and runs to completion, every     *)
(* filing of the filtered index ends as exactly one entry, an error or a   *)
(* record of the success list whatever its form family: fetched plus the   *)
(* number of errors is total_found, and fetched is the number of records.  *)
(***************************************************************************)
C29_EveryFilingAccounted ==
    (bpc = "done" /\ result # NilRec /\ ~opts.listOnly) =>
        /\ result.fetched + Len(result.errors) = result.totalFound
        /\ result.fetched = Len(result.filings)
        /\ \A i \in 1..Len(filings) :
              Cardinality({ k \in 1..Len(result.filings) :
                              result.filings[k].accessionNumber = filings[i].accessionNumber })
              + Cardinality({ k \in 1..Len(result.errors) :
                              result.errors[k].accessionNumber = filings[i].accessionNumber })
              = 1

(***************************************************************************)
(* C30: a fetch whose request failed (transport error, timeout or error    *)
(* status) still counts for pacing: the request that follows it in the     *)
(* process is issued at least 100 ms after the failed one was issued.      *)
(***************************************************************************)
C30_FailedRequestPaces ==
    \A i \in 1..Len(requests) - 1 :
        requests[i].failed => requests[i + 1].at - requests[i].at >= RateLimit

(***************************************************************************)
(* XBRL facts and the fact query, xbrl.go and part_014.  A fact carries    *)
(* its concept, the standardized label of the concept, the period of its   *)
(* context (none when the contextRef names no context, xbrl.go:156-158)    *)
(* and its numeric value (none when the raw value is not a number).        *)
(***************************************************************************)
MaxFacts == 3

NoPeriod == [nil |-> TRUE]
Instant(d) == [startDate |-> << >>, endDate |-> << >>, instant |-> d]
Duration(from, to) == [startDate |-> from, endDate |-> to, instant |-> << >>]

\* A date string that time.Parse rejects.
D_Bad == <<"2", "0", "2", "5">>

\* time.Parse("2006-01-02", s): ten characters, digits around two dashes,
\* a month and a day in range; the instant as the number YYYYMMDD.
timeParse(s) ==
    IF /\ Len(s) = 10
       /\ s[5] = "-" /\ s[8] = "-"
       /\ \A k \in {1, 2, 3, 4, 6, 7, 9, 10} : s[k] \in Digits
       /\ DecimalValue(SubSeq(s, 6, 7), 0) \in 1..12
       /\ DecimalValue(SubSeq(s, 9, 10), 0) \in 1..31
    THEN [err |-> FALSE, t |-> DateNumber(s)]
    ELSE [err |-> TRUE, t |-> 0]

DigitChar(k) == CHOOSE c \in Digits : DigitValue(c) = k

\* t.Format("2006-01-02")
timeFormat(t) ==
    LET y == t \div 10000
        mo == (t \div 100) % 100
        d == t % 100
    IN  <<DigitChar(y \div 1000), DigitChar((y \div 100) % 10), DigitChar((y \div 10) % 10),
          DigitChar(y % 10), "-", DigitChar(mo \div 10), DigitChar(mo % 10), "-",
          DigitChar(d \div 10), DigitChar(d % 10)>>

\* xbrl.go:252-254
IsInstant(f) == f.period # NoPeriod /\ f.period.instant # << >>

\* xbrl.go:257-259
IsDuration(f) ==
    f.period # NoPeriod /\ f.period.startDate # << >> /\ f.period.endDate # << >>

\* xbrl.go:262-277
GetEndDate(f) ==
    IF f.period = NoPeriod THEN [err |-> TRUE, t |-> 0]
    ELSE LET dateStr == IF f.period.endDate = << >> THEN f.period.instant
                        ELSE f.period.endDate
         IN  IF dateStr = << >> THEN [err |-> TRUE, t |-> 0] ELSE timeParse(dateStr)

\* strings.Contains(concept, sub) over the concept names of the facts.
ConceptContains(concept, sub) ==
    \/ concept = sub
    \/ <<concept, sub>> \in { <<"us-gaap:Assets", "Assets">>,
                              <<"us-gaap:Assets", "us-gaap:">>,
                              <<"us-gaap:Revenues", "Revenues">>,
                              <<"us-gaap:Revenues", "us-gaap:">> }

\* part_014:21-26, the query before any filter is set.
Query(facts) ==
    [facts |-> facts, conceptFilter |-> << >>, labelFilter |-> "",
     periodFilter |-> << >>, instantOnly |-> FALSE, durationOnly |-> FALSE]

\* part_014:29-56
ByConcept(q, concepts) == [q EXCEPT !.conceptFilter = concepts]
ByLabel(q, label) == [q EXCEPT !.labelFilter = label]
ForPeriodEndingOn(q, date) == [q EXCEPT !.periodFilter = date]
InstantOnly(q) == [q EXCEPT !.instantOnly = TRUE]
DurationOnly(q) == [q EXCEPT !.durationOnly = TRUE]

\* The tests of the loop body of Get, part_014:62-100.
Matches(q, fact) ==
    /\ Len(q.conceptFilter) > 0 =>
          \E k \in 1..Len(q.conceptFilter) :
              fact.concept = q.conceptFilter[k] \/ ConceptContains(fact.concept, q.conceptFilter[k])
    /\ ~(q.labelFilter # "" /\ fact.label # q.labelFilter)
    /\ q.periodFilter # << >> =>
          /\ ~GetEndDate(fact).err
          /\ timeFormat(GetEndDate(fact).t) = q.periodFilter
    /\ ~(q.instantOnly /\ ~IsInstant(fact))
    /\ ~(q.durationOnly /\ ~IsDuration(fact))

\* part_014:59-106
Get(q) == SelectSeq(q.facts, LAMBDA fact : Matches(q, fact))

\* The less function MostRecent hands to sort.Slice, part_014:126-133.
lessByEndDate(a, b) ==
    IF GetEndDate(a).err \/ GetEndDate(b).err THEN FALSE
    ELSE GetEndDate(a).t > GetEndDate(b).t

Swap(s, i, j) == [s EXCEPT ![i] = s[j], ![j] = s[i]]

\* sort.Slice on a slice of at most six elements is an insertion sort: the
\* element at j moves down while less(j, j-1).
RECURSIVE SinkDown(_, _)
SinkDown(s, j) ==
    IF j > 1 /\ lessByEndDate(s[j], s[j - 1])
    THEN SinkDown(Swap(s, j, j - 1), j - 1)
    ELSE s

RECURSIVE insertionSort(_, _)
insertionSort(s, i) ==
    IF i > Len(s) THEN s ELSE insertionSort(SinkDown(s, i), i + 1)

\* part_014:118-135
MostRecentOf(q) ==
    LET results == Get(q) IN
    IF Len(results) = 0 THEN [err |-> TRUE, fact |-> NilRec]
    ELSE [err |-> FALSE, fact |-> insertionSort(results, 2)[1]]

FactPeriods ==
    {NoPeriod}
    \cup { Instant(d) : d \in {D_2024_12_01, D_2025_01_15, D_2025_03_10, D_Bad} }
    \cup { Duration(D_2024_12_01, d) : d \in {D_2025_01_15, D_2025_03_10} }

QueryFacts ==
    { [concept |-> c[1], label |-> c[2], period |-> p, numeric |-> [ok |-> TRUE, v |-> 7]] :
        c \in { <<"us-gaap:Assets", "Total Assets">>, <<"us-gaap:Revenues", "Revenue">> },
        p \in FactPeriods }

Queries(facts) ==
    { [facts |-> facts, conceptFilter |-> cf, labelFilter |-> lf, periodFilter |-> pf,
       instantOnly |-> io, durationOnly |-> do] :
        cf \in {<< >>, <<"Assets">>}, lf \in {"", "Revenue"},
        pf \in {<< >>, D_2025_03_10}, io \in BOOLEAN, do \in BOOLEAN }

\* q.MostRecent() on one query over one list of facts.
MostRecent ==
    /\ output = NilRec
    /\ output' = MostRecentOf(input)
    /\ UNCHANGED input
    /\ UNCHANGED <<fetchVars, batchVars, form4Vars, acqVars>>

QueryInit ==
    /\ FetchInit({1}) /\ BatchIdle /\ Form4Idle /\ AcquireIdle
    /\ \E n \in 0..MaxFacts : \E facts \in [1..n -> QueryFacts] :
          \E q \in Queries(facts) : input = q
    /\ output = NilRec

SpecQuery == QueryInit /\ [][MostRecent]_vars

(***************************************************************************)
(* C27: when the query has at least one match, most_recent() returns a     *)
(* matching fact whose resolved end date is not earlier than the resolved  *)
(* end date of any other matching fact.                                    *)
(***************************************************************************)
C27_MostRecentIsLatest ==
    (output # NilRec /\ Len(Get(input)) > 0) =>
        /\ ~output.err
        /\ \E k \in 1..Len(Get(input)) : Get(input)[k] = output.fact
        /\ \A k \in 1..Len(Get(input)) :
              ~GetEndDate(Get(input)[k]).err =>
                  /\ ~GetEndDate(output.fact).err
                  /\ GetEndDate(output.fact).t >= GetEndDate(Get(input)[k]).t

(***************************************************************************)
(* The financial snapshot, part_014:360-480: the seven required fields,    *)
(* each the numeric value of the most recent fact with its label (instant  *)
(* facts for the balance sheet, duration facts for the statements), 0 when *)
(* there is no such fact or it is not numeric; then the required fields    *)
(* whose value is 0.  The optional fields play no part in the validation.  *)
(***************************************************************************)
MaxSnapshotFacts == 2

\* part_014:374-381
getInstant(facts, label) ==
    LET r == MostRecentOf(InstantOnly(ByLabel(Query(facts), label)))
    IN  IF ~r.err /\ r.fact.numeric.ok THEN r.fact.numeric.v ELSE 0

\* part_014:384-391
getDuration(facts, label) ==
    LET r == MostRecentOf(DurationOnly(ByLabel(Query(facts), label)))
    IN  IF ~r.err /\ r.fact.numeric.ok THEN r.fact.numeric.v ELSE 0

\* The labels of requiredFields in the order sort.Strings gives them.
RequiredLabels ==
    <<"Cash Flow from Operations", "Net Income (Loss)", "Revenue",
      "Shares Outstanding (Diluted)", "Stockholders Equity", "Total Assets",
      "Total Liabilities">>

\* part_014:458-466
requiredFields(snapshot) ==
    [label \in { RequiredLabels[k] : k \in DOMAIN RequiredLabels } |->
        CASE label = "Total Assets" -> snapshot.totalAssets
          [] label = "Total Liabilities" -> snapshot.totalLiabilities
          [] label = "Stockholders Equity" -> snapshot.stockholdersEquity
          [] label = "Revenue" -> snapshot.revenue
          [] label = "Net Income (Loss)" -> snapshot.netIncome
          [] label = "Cash Flow from Operations" -> snapshot.cashFlowOperations
          [] label = "Shares Outstanding (Diluted)" -> snapshot.dilutedShares]

\* validateRequiredFields reporting a field whenever its value is not positive.
validateRequiredFields_NotPositive(snapshot) ==
    SelectSeq(RequiredLabels, LAMBDA label : requiredFields(snapshot)[label] <= 0)

\* part_014:454-480
validateRequiredFields(snapshot) ==
    SelectSeq(RequiredLabels, LAMBDA label : requiredFields(snapshot)[label] = 0)

\* part_014:360-450
GetSnapshotOf(facts) ==
    LET snapshot ==
          [totalAssets |-> getInstant(facts, "Total Assets"),
           totalLiabilities |-> getInstant(facts, "Total Liabilities"),
           stockholdersEquity |-> getInstant(facts, "Stockholders Equity"),
           revenue |-> getDuration(facts, "Revenue"),
           netIncome |-> getDuration(facts, "Net Income (Loss)"),
           dilutedShares |-> getDuration(facts, "Shares Outstanding (Diluted)"),
           cashFlowOperations |-> getDuration(facts, "Cash Flow from Operations")]
    IN  [snapshot |-> snapshot, missingRequiredFields |-> validateRequiredFields(snapshot)]

\* Facts of a balance sheet and an income statement: a value that is not a
\* number, zero, a positive amount, a loss.
SnapshotFacts ==
    { [concept |-> c[1], label |-> c[2], period |-> p, numeric |-> v] :
        c \in { <<"us-gaap:Assets", "Total Assets">>,
                <<"us-gaap:NetIncomeLoss", "Net Income (Loss)">> },
        p \in { Instant(D_2025_03_10), Duration(D_2024_12_01, D_2025_03_10) },
        v \in { [ok |-> FALSE, v |-> 0], [ok |-> TRUE, v |-> 0],
                [ok |-> TRUE, v |-> 7], [ok |-> TRUE, v |-> -5] } }

\* x.GetSnapshot() on the facts of one document.
GetSnapshot ==
    /\ output = NilRec
    /\ output' = GetSnapshotOf(input.facts)
    /\ UNCHANGED input
    /\ UNCHANGED <<fetchVars, batchVars, form4Vars, acqVars>>

SnapshotInit ==
    /\ FetchInit({1}) /\ BatchIdle /\ Form4Idle /\ AcquireIdle
    /\ \E n \in 0..MaxSnapshotFacts : \E facts \in [1..n -> SnapshotFacts] :
          input = [facts |-> facts]
    /\ output = NilRec

SpecSnapshot == SnapshotInit /\ [][GetSnapshot]_vars

(***************************************************************************)
(* C24: for every FinancialSnapshot, each of the seven required labels is  *)
(* listed in missing_required_fields if and only if its extracted value    *)
(* equals 0.                                                               *)
(***************************************************************************)
Listed(label) ==
    \E k \in 1..Len(output.missingRequiredFields) : output.missingRequiredFields[k] = label

C24_MissingIffZero ==
    output # NilRec =>
        /\ Listed("Total Assets") <=> output.snapshot.totalAssets = 0
        /\ Listed("Total Liabilities") <=> output.snapshot.totalLiabilities = 0
        /\ Listed("Stockholders Equity") <=> output.snapshot.stockholdersEquity = 0
        /\ Listed("Revenue") <=> output.snapshot.revenue = 0
        /\ Listed("Net Income (Loss)") <=> output.snapshot.netIncome = 0
        /\ Listed("Cash Flow from Operations") <=> output.snapshot.cashFlowOperations = 0
        /\ Listed("Shares Outstanding (Diluted)") <=> output.snapshot.dilutedShares = 0

\* Total assets were extracted, net income was reported as a loss: neither
\* is listed, the five fields without a fact are.
C24_Witness ==
    /\ output # NilRec
    /\ output.snapshot.totalAssets = 7
    /\ output.snapshot.netIncome = -5
    /\ output.missingRequiredFields =
         <<"Cash Flow from Operations", "Revenue", "Shares Outstanding (Diluted)",
           "Stockholders Equity", "Total Liabilities">>

(***************************************************************************)
(* The form dispatcher, parser.go, and the Schedule 13 parsers behind it.  *)
(* The bytes of a document are a sequence of pieces: an XML declaration, a *)
(* doctype, the open tag of the root element with its namespace and one    *)
(* more attribute, child elements with their text, text nodes, and a void  *)
(* <br> that HTML accepts and XML does not.  A substring search looks in    *)
(* every piece for the marker it is after.                                 *)
(***************************************************************************)
NS_13D == "http://www.sec.gov/edgar/schedule13D"
NS_13G == "http://www.sec.gov/edgar/schedule13g"
XmlnsIx == "xmlns:ix=\"http://www.xbrl.org/2013/inlineXBRL\""
XmlnsXbrli == "xmlns:xbrli=\"http://www.xbrl.org/2003/instance\""

Decl == [kind |-> "decl", name |-> "xml", value |-> "", attr |-> ""]
Doctype == [kind |-> "doctype", name |-> "html", value |-> "", attr |-> ""]
Open(name, space, attr) == [kind |-> "open", name |-> name, value |-> space, attr |-> attr]
Elem(name, value) == [kind |-> "elem", name |-> name, value |-> value, attr |-> ""]
Text(value) == [kind |-> "text", name |-> "", value |-> value, attr |-> ""]
Void == [kind |-> "void", name |-> "br", value |-> "", attr |-> ""]

\* The markers the dispatcher and the parsers search for that occur in a text.
TextMarkers(v) ==
    CASE v = NS_13D -> {"schedule13D", "schedule13", "13D"}
      [] v = NS_13G -> {"schedule13g", "schedule13"}
      [] v = XmlnsIx -> {"xmlns:ix=", "inlineXBRL"}
      [] v = XmlnsXbrli -> {"xmlns:xbrli="}
      [] v = "SCHEDULE 13D" -> {"SCHEDULE 13D", "SCHEDULE 13", "13D"}
      [] v = "SCHEDULE 13D/A" -> {"SCHEDULE 13D", "SCHEDULE 13", "13D"}
      [] v = "SCHEDULE 13G" -> {"SCHEDULE 13G", "SCHEDULE 13", "13G"}
      [] v = "Schedule 13D" -> {"13D"}
      [] v = "SCHEDULE&nbsp;13G" -> {"13G"}
      [] v = "Amendment No. 2" -> {"Amendment", "Amendment No."}
      [] OTHER -> {}

TagMarkers(name) ==
    CASE name = "edgarSubmission" -> {"<edgarSubmission"}
      [] name = "xbrl" -> {"<xbrl"}
      [] name = "html" -> {"<html"}
      [] OTHER -> {}

MarkersIn(p) ==
    CASE p.kind = "decl" -> {"<?xml"}
      [] p.kind = "doctype" -> {"<!DOCTYPE html"}
      [] p.kind = "open" -> TagMarkers(p.name) \cup TextMarkers(p.value) \cup TextMarkers(p.attr)
      [] p.kind = "void" -> {}
      [] OTHER -> TextMarkers(p.value)

\* strings.Contains(string(data), marker)
Contains(data, marker) == \E k \in 1..Len(data) : marker \in MarkersIn(data[k])

\* strings.HasPrefix(strings.TrimSpace(string(data)), prefix)
DataHasPrefix(data, prefix) ==
    /\ data # << >>
    /\ prefix \in (CASE data[1].kind = "decl" -> {"<?xml"}
                     [] data[1].kind = "doctype" -> {"<!DOCTYPE html"}
                     [] data[1].kind = "open" -> TagMarkers(data[1].name)
                     [] OTHER -> {})

\* NormalizeText on the pieces: an entity for a space becomes a space.
NormalizePieces(data) ==
    [k \in 1..Len(data) |->
        IF data[k].value = "SCHEDULE&nbsp;13G" THEN [data[k] EXCEPT !.value = "SCHEDULE 13G"]
        ELSE data[k]]

\* xbrl_ixbrl.go:160-179
DetectXBRLType(data) ==
    IF Contains(data, "xmlns:ix=") \/ Contains(data, "<ix:") \/ Contains(data, "inlineXBRL")
       THEN "inline"
    ELSE IF Contains(data, "<xbrl") \/ Contains(data, "xmlns:xbrli=")
       THEN "standalone"
    ELSE "unknown"

\* encoding/xml reads the document to its end: a void element is an error.
WellFormed(data) == \A k \in 1..Len(data) : data[k].kind # "void"

ChildValue(data, name) ==
    LET at == { k \in 1..Len(data) : data[k].kind = "elem" /\ data[k].name = name }
    IN  IF at = {} THEN "" ELSE data[Min(at)].value

\* xml.Unmarshal(data, &check), parser.go:120-127
quickCheck(data) ==
    LET root == data[Min({ k \in 1..Len(data) : data[k].kind = "open" })]
    IN  [local |-> root.name, space |-> root.value,
         docType |-> ChildValue(data, "documentType"),
         submissionType |-> ChildValue(data, "submissionType")]

\* The scan of the HTML branches, parser.go:107-118 and 162-176.
scanHTML(data) ==
    IF Contains(data, "schedule13D") \/ Contains(data, "SCHEDULE 13D")
       THEN [err |-> "", formType |-> IF Contains(data, "Amendment") THEN "SC 13D/A" ELSE "SC 13D"]
    ELSE IF Contains(data, "schedule13g") \/ Contains(data, "SCHEDULE 13G")
       THEN [err |-> "", formType |-> IF Contains(data, "Amendment") THEN "SC 13G/A" ELSE "SC 13G"]
    ELSE [err |-> "HTML form type not recognized", formType |-> ""]

\* parser.go:100-180
detectFormType(data) ==
    IF DataHasPrefix(data, "<!DOCTYPE html") \/ DataHasPrefix(data, "<html")
       THEN scanHTML(data)
    ELSE IF ~WellFormed(data)
       THEN IF Contains(data, "SCHEDULE 13") \/ Contains(data, "schedule13")
               THEN [err |-> "", formType |-> IF Contains(data, "13D") THEN "SC 13D" ELSE "SC 13G"]
               ELSE [err |-> "failed to parse XML", formType |-> ""]
    ELSE LET check == quickCheck(data) IN
         CASE check.local = "ownershipDocument" ->
                  [err |-> "", formType |-> IF check.docType # "" THEN check.docType ELSE "4"]
           [] check.local = "informationTable" -> [err |-> "", formType |-> "13F"]
           [] check.local = "edgarSubmission" ->
                  IF check.space \in {NS_13D, NS_13G}
                     THEN [err |-> "", formType |-> check.submissionType]
                     ELSE [err |-> "edgarSubmission namespace not yet supported", formType |-> ""]
           [] check.local = "html" -> scanHTML(data)
           [] OTHER -> [err |-> "unknown form type with root element", formType |-> ""]

\* normalizedType with the amendment of a Form 4 taken for a Form 4.
normalizedType_AmendmentAsForm4(formType) ==
    CASE formType = "SCHEDULE 13D" -> "SC 13D"
      [] formType = "SCHEDULE 13D/A" -> "SC 13D/A"
      [] formType = "SCHEDULE 13G" -> "SC 13G"
      [] formType = "SCHEDULE 13G/A" -> "SC 13G/A"
      [] formType = "4/A" -> "4"
      [] OTHER -> formType

\* parser.go:54-67
normalizedType(formType) ==
    CASE formType = "SCHEDULE 13D" -> "SC 13D"
      [] formType = "SCHEDULE 13D/A" -> "SC 13D/A"
      [] formType = "SCHEDULE 13G" -> "SC 13G"
      [] formType = "SCHEDULE 13G/A" -> "SC 13G/A"
      [] OTHER -> formType

\* The text nodes html.Parse yields, joined by extractText (part_009:455-470).
PageText(data) ==
    SelectSeq(data, LAMBDA p : p.kind \in {"elem", "text"})

\* part_009:15-100: the form type and the items of the record.
ParseSchedule13HTML(data) ==
    LET pageText == PageText(data)
        base == IF Contains(pageText, "SCHEDULE 13D") THEN "SC 13D"
                ELSE IF Contains(pageText, "SCHEDULE 13G") THEN "SC 13G"
                ELSE ""
        amended == Contains(pageText, "Amendment No.")
        is13D == base = "SC 13D"
        is13G == base = "SC 13G"
    IN  [err |-> "", parser |-> "ParseSchedule13HTML",
         formType |-> IF amended THEN <<base, "/A">> ELSE <<base>>,
         items13D |-> is13D, items13G |-> ~is13D /\ is13G]

\* part_008:476-549
ParseSchedule13D(data) ==
    IF ~WellFormed(data)
       THEN [err |-> "failed to parse Schedule 13D XML", parser |-> "ParseSchedule13D",
             formType |-> << >>, items13D |-> FALSE, items13G |-> FALSE]
       ELSE [err |-> "", parser |-> "ParseSchedule13D",
             formType |-> <<ChildValue(data, "submissionType")>>,
             items13D |-> TRUE, items13G |-> FALSE]

\* part_008:719-791
ParseSchedule13G(data) ==
    IF ~WellFormed(data)
       THEN [err |-> "failed to parse Schedule 13G XML", parser |-> "ParseSchedule13G",
             formType |-> << >>, items13D |-> FALSE, items13G |-> FALSE]
       ELSE [err |-> "", parser |-> "ParseSchedule13G",
             formType |-> <<ChildValue(data, "submissionType")>>,
             items13D |-> FALSE, items13G |-> TRUE]

\* schedule13_html.go:517-536
ParseSchedule13Auto(data) ==
    IF /\ DataHasPrefix(data, "<?xml")
       /\ Contains(data, "<edgarSubmission")
       /\ ~Contains(data, "<!DOCTYPE html")
       /\ (Contains(data, "schedule13D") \/ Contains(data, "schedule13g"))
    THEN IF Contains(data, "schedule13D") THEN ParseSchedule13D(data)
         ELSE ParseSchedule13G(data)
    ELSE ParseSchedule13HTML(data)

NoData == [parser |-> "none"]

\* ParseAny with the form detection ahead of the XBRL probe.
ParseAnyOf_DetectsFormFirst(data) ==
    LET detected == detectFormType(data)
        xbrlType == DetectXBRLType(data)
        normalized == normalizedType(detected.formType)
    IN  IF detected.err = "" /\ normalized = "4"
           THEN [err |-> IF WellFormed(data) THEN "" ELSE "failed to parse Form 4",
                 formType |-> IF WellFormed(data) THEN "4" ELSE "",
                 detected |-> detected.formType,
                 data |-> IF WellFormed(data) THEN [parser |-> "Parse"] ELSE NoData,
                 calls |-> <<"detectFormType", "Parse">>]
        ELSE IF detected.err = "" /\ normalized \in {"SC 13D", "SC 13D/A", "SC 13G", "SC 13G/A"}
           THEN LET sc13 == ParseSchedule13Auto(NormalizePieces(data)) IN
                [err |-> sc13.err,
                 formType |-> IF sc13.err = "" THEN normalized ELSE "",
                 detected |-> detected.formType,
                 data |-> IF sc13.err = "" THEN sc13 ELSE NoData,
                 calls |-> <<"detectFormType", "NormalizeText", "ParseSchedule13Auto", sc13.parser>>]
        ELSE IF xbrlType \in {"inline", "standalone"}
           THEN [err |-> IF WellFormed(data) THEN "" ELSE "failed to parse XBRL",
                 formType |-> IF WellFormed(data) THEN "XBRL" ELSE "",
                 detected |-> "",
                 data |-> IF WellFormed(data) THEN [parser |-> "ParseXBRLAuto"] ELSE NoData,
                 calls |-> <<"detectFormType", "DetectXBRLType", "ParseXBRLAuto">>]
        ELSE [err |-> IF detected.err # "" THEN detected.err ELSE "not yet supported",
              formType |-> "", detected |-> detected.formType, data |-> NoData,
              calls |-> <<"detectFormType", "DetectXBRLType">>]

\* parser.go:17-97.  calls lists the probes and parsers in the order they run.
ParseAnyOf(data) ==
    LET xbrlType == DetectXBRLType(data) IN
    IF xbrlType \in {"inline", "standalone"}
       THEN IF ~WellFormed(data)
               THEN [err |-> "failed to parse XBRL", formType |-> "", detected |-> "",
                     data |-> NoData, calls |-> <<"DetectXBRLType", "ParseXBRLAuto">>]
               ELSE [err |-> "", formType |-> "XBRL", detected |-> "",
                     data |-> [parser |-> "ParseXBRLAuto"],
                     calls |-> <<"DetectXBRLType", "ParseXBRLAuto", "GetSnapshot">>]
    ELSE LET detected == detectFormType(data) IN
         IF detected.err # ""
            THEN [err |-> detected.err, formType |-> "", detected |-> "",
                  data |-> NoData, calls |-> <<"DetectXBRLType", "detectFormType">>]
         ELSE LET normalized == normalizedType(detected.formType) IN
              IF normalized = "4"
                 THEN IF ~WellFormed(data)
                         THEN [err |-> "failed to parse Form 4", formType |-> "",
                               detected |-> detected.formType, data |-> NoData,
                               calls |-> <<"DetectXBRLType", "detectFormType", "Parse">>]
                         ELSE [err |-> "", formType |-> "4", detected |-> detected.formType,
                               data |-> [parser |-> "Parse"],
                               calls |-> <<"DetectXBRLType", "detectFormType", "Parse", "ToOutput">>]
              ELSE IF normalized \in {"SC 13D", "SC 13D/A", "SC 13G", "SC 13G/A"}
                 THEN LET sc13 == ParseSchedule13Auto(NormalizePieces(data)) IN
                      [err |-> IF sc13.err = "" THEN "" ELSE "failed to parse Schedule 13D/G",
                       formType |-> IF sc13.err = "" THEN normalized ELSE "",
                       detected |-> detected.formType,
                       data |-> IF sc13.err = "" THEN sc13 ELSE NoData,
                       calls |-> <<"DetectXBRLType", "detectFormType", "NormalizeText",
                                   "ParseSchedule13Auto", sc13.parser>>]
              ELSE [err |-> "not yet supported", formType |-> "",
                    detected |-> detected.formType, data |-> NoData,
                    calls |-> <<"DetectXBRLType", "detectFormType">>]

Roots == {"ownershipDocument", "informationTable", "edgarSubmission", "html", "xbrl", "feed"}

\* The pieces a document is made of, in the order they stand in the bytes.
Optional(present, piece) == IF present THEN <<piece>> ELSE << >>

Documents ==
    { Optional(prolog = "decl", Decl) \o Optional(prolog = "doctype", Doctype)
        \o <<Open(root, space, attr)>>
        \o Optional(docType # "", Elem("documentType", docType))
        \o Optional(submission # "", Elem("submissionType", submission))
        \o Optional("SCHEDULE 13D" \in texts, Text("SCHEDULE 13D"))
        \o Optional("SCHEDULE 13G" \in texts, Text("SCHEDULE 13G"))
        \o Optional("Schedule 13D" \in texts, Text("Schedule 13D"))
        \o Optional("SCHEDULE&nbsp;13G" \in texts, Text("SCHEDULE&nbsp;13G"))
        \o Optional("Amendment No. 2" \in texts, Text("Amendment No. 2"))
        \o Optional(void, Void) :
      prolog \in {"", "decl", "doctype"}, root \in Roots, space \in {"", NS_13D, NS_13G},
      attr \in {"", XmlnsIx, XmlnsXbrli}, docType \in {"", "4", "4/A", "3"},
      submission \in {"", "SCHEDULE 13D", "SCHEDULE 13D/A", "SCHEDULE 13G"},
      texts \in SUBSET {"SCHEDULE 13D", "SCHEDULE 13G", "Schedule 13D", "SCHEDULE&nbsp;13G",
                        "Amendment No. 2"},
      void \in BOOLEAN }

\* ParseAny on the bytes of one document.
ParseAny ==
    /\ output = NilRec
    /\ output' = ParseAnyOf(input.data)
    /\ UNCHANGED input
    /\ UNCHANGED <<fetchVars, batchVars, form4Vars, acqVars>>

DispatchInit ==
    /\ FetchInit({1}) /\ BatchIdle /\ Form4Idle /\ AcquireIdle
    /\ \E d \in Documents : input = [data |-> d]
    /\ output = NilRec

SpecDispatch == DispatchInit /\ [][ParseAny]_vars

(***************************************************************************)
(* C21: every Schedule 13 record of a successful parse, by the XML 13D     *)
(* path, the XML 13G path or the HTML path, has exactly one of items_13d   *)
(* and items_13g populated: items_13d for the 13D family, items_13g for    *)
(* the 13G family, never both and never neither.                           *)
(***************************************************************************)
Schedule13Parsers == {"ParseSchedule13D", "ParseSchedule13G", "ParseSchedule13HTML"}

C21_ExactlyOneItems ==
    (output # NilRec /\ output.data.parser \in Schedule13Parsers) =>
        /\ output.data.items13D # output.data.items13G
        /\ output.data.items13D <=> output.formType \in {"SC 13D", "SC 13D/A"}
        /\ output.data.items13G <=> output.formType \in {"SC 13G", "SC 13G/A"}

(***************************************************************************)
(* C25: the dispatcher returns a parsed filing only when the detected      *)
(* label normalizes to 4, SC 13D, SC 13D/A, SC 13G, SC 13G/A or XBRL; for  *)
(* every other detected label (13F, 3, 5, 4/A, ...) it returns an          *)
(* Unsupported error and no record.                                        *)
(***************************************************************************)
CanonicalTags == {"4", "SC 13D", "SC 13D/A", "SC 13G", "SC 13G/A", "XBRL"}

SupportedLabels ==
    {"4", "SC 13D", "SC 13D/A", "SC 13G", "SC 13G/A",
     "SCHEDULE 13D", "SCHEDULE 13D/A", "SCHEDULE 13G", "SCHEDULE 13G/A"}

C25_OnlyCanonicalTagsParsed ==
    output # NilRec =>
        /\ output.data # NoData =>
              /\ output.err = ""
              /\ output.formType \in CanonicalTags
              /\ output.formType # "XBRL" => output.detected \in SupportedLabels
        /\ (output.detected # "" /\ output.detected \notin SupportedLabels) =>
              /\ output.err = "not yet supported"
              /\ output.data = NoData

\* An ownership document of type 4/A, 3 or an information table was
\* detected and turned away.
C25_Witness ==
    /\ output # NilRec
    /\ output.detected \in {"4/A", "3", "13F"}
    /\ output.err = "not yet supported"
    /\ output.data = NoData

(***************************************************************************)
(* C26: the XBRL probe runs first.  Bytes that contain an XBRL marker      *)
(* (xmlns:ix=, <ix:, inlineXBRL, <xbrl, xmlns:xbrli=) go to the XBRL       *)
(* extractor and never to the Form 4 or Schedule 13 parsers, whatever else *)
(* they contain; the ownership and HTML probes run only without a marker.  *)
(***************************************************************************)
XBRLMarkers == {"xmlns:ix=", "<ix:", "inlineXBRL", "<xbrl", "xmlns:xbrli="}

HasXBRLMarker(data) == \E marker \in XBRLMarkers : Contains(data, marker)

Called(name) == \E k \in 1..Len(output.calls) : output.calls[k] = name

C26_XBRLProbeFirst ==
    output # NilRec =>
        /\ output.calls[1] = "DetectXBRLType"
        /\ IF HasXBRLMarker(input.data)
              THEN /\ Called("ParseXBRLAuto")
                   /\ ~Called("detectFormType")
                   /\ ~Called("Parse")
                   /\ ~Called("ParseSchedule13Auto")
                   /\ output.data.parser \in {"none", "ParseXBRLAuto"}
              ELSE /\ ~Called("ParseXBRLAuto")
                   /\ output.calls[2] = "detectFormType"

\* An XHTML page that declares the inline XBRL namespace and the Schedule
\* 13D namespace and prints SCHEDULE 13D comes back as XBRL.
C26_Witness ==
    /\ output # NilRec
    /\ Contains(input.data, "xmlns:ix=")
    /\ Contains(input.data, "schedule13D")
    /\ Contains(input.data, "SCHEDULE 13D")
    /\ output.formType = "XBRL"

====
